---- MODULE Spec2Model ----
(***************************************************************************)
(* The credential service of ssi-service: issuance, status update and      *)
(* deletion of verifiable credentials, the per-triple StatusList2021       *)
(* bookkeeping, and the optimistic-concurrency transaction (Execute) both  *)
(* run under.                                                              *)
(*                                                                         *)
(* pkg/service/credential/service.go is modelled from its code.  The       *)
(* storage layer it calls (Execute, StoreCredentialTx, the status-list     *)
(* allocator, DeleteCredential) is not part of the sources at hand and is  *)
(* modelled from sections 4.1 and 4.3 of the specification.                *)
(***************************************************************************)
EXTENDS Integers, FiniteSets, Sequences, TLC

\* ---------------------------------------------------------------- bounds
MaxCreds == 2          \* credential ids (UUIDs) that can be handed out
BitstringLength == 2   \* bits of a status list (the range of statusListIndex)
MaxRetries == 1        \* how often Execute re-runs a body after a conflict
MaxPairCreds == 3      \* credential ids in the two-call experiment

\* ---------------------------------------------------------------- universe
Procs == {"p1", "p2"}
IssuerA == "did:key:A"
IssuerB == "did:key:B"
Issuers == {IssuerA, IssuerB}
NoSchema == ""
SchemaS == "schema-S"
Schemas == {NoSchema, SchemaS}
KnownSchemas == {SchemaS}
StatusRevocation == "revocation"
StatusSuspension == "suspension"
Purposes == {StatusRevocation, StatusSuspension}
NoPurpose == "none"
Triples == [issuer : Issuers, schema : Schemas, purpose : Purposes]
CredIds == 1 .. MaxCreds
ListIds == 1 .. MaxCreds
Indices == 0 .. (BitstringLength - 1)
PairCredIds == 1 .. MaxPairCreds
PairListIds == 1 .. MaxPairCreds

\* Subjects, the id the request's data may carry, whether the data complies
\* with the schema (the verdict of the JSON-schema validator, an external
\* collaborator), and elements of an evidence list.
SubjectX == "did:test:X"
SubjectY == "did:test:Y"
Subjects == {SubjectX, SubjectY}
NoDataId == ""
Conforming == "conforming"
NonConforming == "non-conforming"
EvidenceGood == [kind |-> "object", keys |-> {"id", "type", "verifier"}]
EvidenceNoId == [kind |-> "object", keys |-> {"type", "verifier"}]
EvidenceNoType == [kind |-> "object", keys |-> {"id"}]
EvidenceString == [kind |-> "string", keys |-> {}]
NoEvidence == <<>>

\* The key store: key id -> controller and revoked flag (external collaborator).
KeyA == "did:key:A#key"
KeyB == "did:key:B#key"
KeyARevoked == "did:key:A#revoked"
KeyUnknown == "did:key:A#unknown"
SchemaUnknown == "schema-unknown"
InitialKeyStore ==
  [k \in {KeyA, KeyB, KeyARevoked} |->
     [controller |-> IF k = KeyB THEN IssuerB ELSE IssuerA,
      revoked |-> (k = KeyARevoked)]]

\* ---------------------------------------------------------------- state
VARIABLES
  db,        \* the committed store: credentials, statusLists, indexPool, currentIndex
  issued,    \* credential ids (UUIDs) ever stored
  pc,        \* per caller: idle, execute, commit, done
  op,        \* per caller: the call in progress
  watch,     \* per caller: the watch keys handed to Execute
  dirty,     \* per caller: a watched key changed since the attempt started
  attempts,  \* per caller: conflicts met so far by this Execute
  tx,        \* per caller: the pending write set of the running attempt
  result,    \* per caller: what the call returns
  phase,     \* history: free, or setup / pair of the two-call experiment
  snap,      \* history: the store when the two calls of the experiment started
  keyStore   \* the key store: controller and revoked of each key it holds

vars == <<db, issued, pc, op, watch, dirty, attempts, tx, result, phase, snap, keyStore>>
history == <<phase, snap>>
procVars == <<pc, op, watch, dirty, attempts, tx, result>>

\* ---------------------------------------------------------------- helpers
NoWrites == <<>>
EmptyTx ==
  [credentials |-> NoWrites, statusLists |-> NoWrites,
   indexPool |-> NoWrites, currentIndex |-> NoWrites]
EmptyDb == EmptyTx

\* w laid over f: the value of a key is the pending write if there is one.
Overlay(w, f) ==
  [k \in (DOMAIN w) \cup (DOMAIN f) |-> IF k \in DOMAIN w THEN w[k] ELSE f[k]]

Put(f, k, v) == [x \in (DOMAIN f) \cup {k} |-> IF x = k THEN v ELSE f[x]]

\* LET x == v IN F(x), with v evaluated once however often F uses x
Once(v, F(_)) == CHOOSE y \in {F(x) : x \in {v}} : TRUE

Min(S) == CHOOSE x \in S : \A y \in S : x <= y

\* What a closure returns: the write set and the value, or the error.  An error
\* is named by the message of the statement that raises it; the prefixes the
\* callers wrap around it are left out.
Ok(t, o) == [err |-> "", tx |-> t, out |-> o, redraw |-> FALSE]
Fail(e) == [err |-> e, tx |-> EmptyTx, out |-> <<>>, redraw |-> FALSE]

\* the ID of a Status that was not given one (the empty string)
NoId == 0

NoOp == [kind |-> "none", reqs |-> <<>>, meta |-> <<>>]
NoResult == [err |-> "", out |-> <<>>]

WatchKey(ns, t) == [namespace |-> ns, triple |-> t]
\* the nil *storage.WatchKey that statusListCredentialWatchKey returns, with a
\* nil error, at service.go 722-724: errors.Wrap of a nil error is nil
NilWatchKey == <<>>

\* ---------------------------------------------------------------- requests
hasStatus(request) == request.revocable \/ request.suspendable
isStatusValid(request) == ~(request.revocable /\ request.suspendable)

\* statusPurpose of a create request, service.go 102-106
RequestPurposeNoSuspension(request) == StatusRevocation
RequestPurpose(request) ==
  IF request.suspendable THEN StatusSuspension ELSE StatusRevocation

\* the triple the three watch keys of a create request are made of, 108-110
RequestTripleNoSchema(request) ==
  [issuer |-> request.issuer, schema |-> NoSchema, purpose |-> RequestPurpose(request)]
RequestTriple(request) ==
  [issuer |-> request.issuer, schema |-> request.schema,
   purpose |-> RequestPurpose(request)]

\* watchKeys and statusMetadata of CreateCredential, service.go 98-117
CreateWatchKeysNone(request) == {}
CreateWatchKeys(request) ==
  IF hasStatus(request) /\ isStatusValid(request)
    THEN {WatchKey("status-list-credential", RequestTriple(request)),
          WatchKey("status-list-index-pool", RequestTriple(request)),
          WatchKey("status-list-current-index", RequestTriple(request))}
    ELSE {}

\* ---------------------------------------------------------------- signing
\* signCredentialJWT, service.go 267-288: "" or the error
signCredentialJWTIgnoringRevoked(verificationMethodID, issuer) ==
  IF verificationMethodID \notin DOMAIN keyStore
    THEN "getting key for signing credential"
  ELSE IF keyStore[verificationMethodID].controller # issuer
    THEN "key controller does not match credential issuer"
  ELSE ""
signCredentialJWTWithAnyKey(verificationMethodID, issuer) == ""
signCredentialJWTIgnoringController(verificationMethodID, issuer) ==
  IF verificationMethodID \notin DOMAIN keyStore
    THEN "getting key for signing credential"
  ELSE IF keyStore[verificationMethodID].revoked
    THEN "cannot use revoked key"
  ELSE ""
signCredentialJWT(verificationMethodID, issuer) ==
  IF verificationMethodID \notin DOMAIN keyStore
    THEN "getting key for signing credential"
  ELSE IF keyStore[verificationMethodID].controller # issuer
    THEN "key controller does not match credential issuer"
  ELSE IF keyStore[verificationMethodID].revoked
    THEN "cannot use revoked key"
  ELSE ""

\* ---------------------------------------------------------------- status list
\* the statusListCredential URI of a status entry, <service-path>/status/<uuid>
StatusListURI(listID) == <<"v1/credentials/status", listID>>

\* parseIDFromURI, service.go 582-588: the trailing UUID of the URI
parseIDFromURI(uri) == uri[Len(uri)]

\* the credentialStatus entry of a credential without status
NoStatusEntry == [purpose |-> NoPurpose, index |-> -1, list |-> <<>>]

\* StoreCredentialTx: the credential record joins the pending write set
StoreCredentialTx(t, id, container) ==
  [t EXCEPT !.credentials = Put(@, id, container)]

\* StoreStatusListCredentialTx: the status credential is written under the key
\* slcMetadata.statusListCredentialWatchKey names
StoreStatusListCredentialTx(t, slcMetadata, statusListContainer) ==
  [t EXCEPT !.statusLists = Put(@, slcMetadata, statusListContainer)]

\* AllocateStatusEntry (specification 4.3).  The three records of the triple
\* are read through the transaction (pending writes first); draw is the random
\* candidate, rejected (redraw) when the pool already holds it.  The
\* specification describes no outcome for a pool that holds every index; the
\* error of that branch closes the bounded index range of the model and stands
\* for no statement of the source.
createStatusListEntryForCredential(view, t, request, statusMetadata, listID, draw) ==
  LET purpose == IF request.suspendable THEN StatusSuspension ELSE StatusRevocation
      exists == statusMetadata \in DOMAIN Overlay(t.statusLists, view.statusLists)
      signErr == signCredentialJWT(request.vm, request.issuer)
      fresh == [id |-> listID, issuer |-> request.issuer, purpose |-> purpose,
                bits |-> {}, jwt |-> request.vm]
      t1 == IF exists THEN t
            ELSE [t EXCEPT !.statusLists = Put(@, statusMetadata, fresh),
                           !.indexPool = Put(@, statusMetadata, {}),
                           !.currentIndex = Put(@, statusMetadata, 0)]
      pool == Overlay(t1.indexPool, view.indexPool)[statusMetadata]
      cursor == Overlay(t1.currentIndex, view.currentIndex)[statusMetadata]
      list == Overlay(t1.statusLists, view.statusLists)[statusMetadata]
      t2 == [t1 EXCEPT !.indexPool = Put(@, statusMetadata, pool \cup {draw}),
                       !.currentIndex = Put(@, statusMetadata, cursor + 1)]
  IN  IF ~exists /\ signErr # "" THEN Fail(signErr)
      ELSE IF pool = Indices THEN Fail("no more indexes available for status list index")
      ELSE IF draw \in pool THEN [Fail("") EXCEPT !.redraw = TRUE]
      ELSE Ok(t2, [purpose |-> purpose, index |-> draw, list |-> StatusListURI(list.id)])

\* ---------------------------------------------------------------- issuance
\* hasEvidence and validateEvidence of the request (specification 4.2, step 2,
\* and the messages of part_000 1104-1149): "" or the error of the first
\* element that is no object or lacks id or type
hasEvidence(request) == Len(request.evidence) > 0
validateEvidenceAcceptingAll(evidence) == ""
RECURSIVE validateEvidence(_)
validateEvidence(evidence) ==
  IF evidence = <<>> THEN ""
  ELSE IF Head(evidence).kind # "object" THEN "invalid evidence format"
  ELSE IF ~({"id", "type"} \subseteq Head(evidence).keys)
    THEN "missing required 'id' or 'type'"
  ELSE validateEvidence(Tail(evidence))

\* the token signCredentialJWT returns (service.go 280-287): the credential
\* document signed with the key
CredentialJWT(verificationMethodID, cred) ==
  [kid |-> verificationMethodID, claims |-> cred]

\* request.Data as a JSON object: it has an "id" property or none
DataOf(request) ==
  IF request.dataId = NoDataId THEN [k \in {} |-> ""]
  ELSE [k \in {"id"} |-> request.dataId]

\* the id of the subject when the requested subject is not written into it
credentialSubjectIDUnset(request) ==
  IF "id" \in DOMAIN DataOf(request) THEN DataOf(request)["id"] ELSE ""

\* subject := CredentialSubject(request.Data); subject["id"] = request.Subject,
\* service.go 162-164: the id property of the credentialSubject built
credentialSubjectID(request) == Put(DataOf(request), "id", request.subject)["id"]

\* the container handed to the store with both flags set
StoredContainerFlagged(request, cred) ==
  [issuer |-> cred.issuer, subject |-> cred.subject,
   schema |-> cred.schema, evidence |-> cred.evidence,
   vm |-> request.vm, jwt |-> CredentialJWT(request.vm, cred),
   purpose |-> cred.purpose, index |-> cred.index, list |-> cred.list,
   revoked |-> TRUE, suspended |-> TRUE]

\* credstorage.StoreCredentialRequest built by createCredential, service.go 247-254:
\* Revoked: false, Suspended: false
StoredContainer(request, cred) ==
  [issuer |-> cred.issuer, subject |-> cred.subject,
   schema |-> cred.schema, evidence |-> cred.evidence,
   vm |-> request.vm, jwt |-> CredentialJWT(request.vm, cred),
   purpose |-> cred.purpose, index |-> cred.index, list |-> cred.list,
   revoked |-> FALSE, suspended |-> FALSE]

\* createCredential, service.go 146-264: build, sign and store
buildCredential(view, t, request, statusMetadata, credentialID, listID, draw) ==
  IF "id" \in DOMAIN DataOf(request) /\ DataOf(request)["id"] # request.subject
    THEN Fail("cannot set subject, data already contains a different ID value")
  ELSE IF request.schema # NoSchema /\ request.schema \notin KnownSchemas
    THEN Fail("failed to create credential; could not get schema")
  ELSE
    Once(IF hasStatus(request)
           THEN createStatusListEntryForCredential(
                  view, t, request, statusMetadata, listID, draw)
           ELSE Ok(t, NoStatusEntry),
         LAMBDA entry :
    LET signErr == signCredentialJWT(request.vm, request.issuer)
        evidenceErr == IF hasEvidence(request) THEN validateEvidence(request.evidence)
                       ELSE ""
        cred == [issuer |-> request.issuer, subject |-> credentialSubjectID(request),
                 schema |-> request.schema, evidence |-> request.evidence,
                 purpose |-> entry.out.purpose, index |-> entry.out.index,
                 list |-> entry.out.list]
        container == StoredContainer(request, cred)
    IN  IF entry.redraw THEN entry
        ELSE IF entry.err # "" THEN Fail("could not create status list entry for credential")
        ELSE IF evidenceErr # "" THEN Fail(evidenceErr)
        ELSE IF request.schema # NoSchema /\ request.data # Conforming
          THEN Fail("credential data does not comply with the provided schema")
        ELSE IF signErr # "" THEN Fail(signErr)
        ELSE Ok(StoreCredentialTx(entry.tx, credentialID, container),
                [id |-> credentialID, container |-> container]))

\* createCredential, service.go 139-264
createCredentialUnchecked(view, t, request, statusMetadata, credentialID, listID, draw) ==
  buildCredential(view, t, request, statusMetadata, credentialID, listID, draw)
createCredential(view, t, request, statusMetadata, credentialID, listID, draw) ==
  IF ~isStatusValid(request)
    THEN Fail("credential may have at most one status")
    ELSE buildCredential(view, t, request, statusMetadata, credentialID, listID, draw)

\* ---------------------------------------------------------------- status update
\* statusListCredentialWatchKey, service.go 702-728
statusListCredentialWatchKeyUnchecked(view, id) ==
  IF id \notin DOMAIN view.credentials
    THEN [err |-> "reading credential", key |-> <<>>]
  ELSE
    LET gotCred == view.credentials[id]
        triple == [issuer |-> gotCred.issuer, schema |-> gotCred.schema,
                   purpose |-> gotCred.purpose]
    IN  IF triple \notin DOMAIN view.statusLists
          THEN [err |-> "", key |-> NilWatchKey]
          ELSE [err |-> "", key |-> triple]
statusListCredentialWatchKeyOfSuspension(view, id) ==
  IF id \notin DOMAIN view.credentials
    THEN [err |-> "reading credential", key |-> <<>>]
  ELSE
    LET gotCred == view.credentials[id]
        triple == [issuer |-> gotCred.issuer, schema |-> gotCred.schema,
                   purpose |-> StatusSuspension]
    IN  IF gotCred.purpose = NoPurpose
          THEN [err |-> "has no credentialStatus field", key |-> <<>>]
        ELSE IF triple \notin DOMAIN view.statusLists
          THEN [err |-> "", key |-> NilWatchKey]
        ELSE [err |-> "", key |-> triple]
statusListCredentialWatchKeyOfRevocation(view, id) ==
  IF id \notin DOMAIN view.credentials
    THEN [err |-> "reading credential", key |-> <<>>]
  ELSE
    LET gotCred == view.credentials[id]
        triple == [issuer |-> gotCred.issuer, schema |-> gotCred.schema,
                   purpose |-> StatusRevocation]
    IN  IF gotCred.purpose = NoPurpose
          THEN [err |-> "has no credentialStatus field", key |-> <<>>]
        ELSE IF triple \notin DOMAIN view.statusLists
          THEN [err |-> "", key |-> NilWatchKey]
        ELSE [err |-> "", key |-> triple]
statusListCredentialWatchKey(view, id) ==
  IF id \notin DOMAIN view.credentials
    THEN [err |-> "reading credential", key |-> <<>>]
  ELSE
    LET gotCred == view.credentials[id]
        triple == [issuer |-> gotCred.issuer, schema |-> gotCred.schema,
                   purpose |-> gotCred.purpose]
    IN  IF gotCred.purpose = NoPurpose
          THEN [err |-> "has no credentialStatus field", key |-> <<>>]
        ELSE IF triple \notin DOMAIN view.statusLists
          THEN [err |-> "", key |-> NilWatchKey]
        ELSE [err |-> "", key |-> triple]

\* statussdk.GenerateStatusList2021Credential as service.go 551 uses it: the
\* list of the given purpose over the given credentials; a credential whose
\* status entry has another purpose is an error (part_000 1079-1102)
GenerateStatusList2021Credential(view, listID, issuer, statusPurpose, statusCreds) ==
  IF \E c \in statusCreds : view.credentials[c].purpose # statusPurpose
    THEN [err |-> "different status purpose", list |-> <<>>]
    ELSE [err |-> "",
          list |-> [id |-> listID, issuer |-> issuer, purpose |-> statusPurpose,
                    bits |-> {view.credentials[c].index : c \in statusCreds}]]

\* the credentials whose bit the regenerated list sets, service.go 521-543
revokedOrSuspendedStatusCredsWithoutCurrent(view, id, request) ==
  LET gotCred == view.credentials[id] IN
  {c \in (DOMAIN view.credentials) \ {id} :
     /\ view.credentials[c].issuer = gotCred.issuer
     /\ view.credentials[c].schema = gotCred.schema
     /\ view.credentials[c].purpose # NoPurpose
     /\ IF request.revoked THEN view.credentials[c].revoked
        ELSE request.suspended /\ view.credentials[c].suspended}
revokedOrSuspendedStatusCreds(view, id, request) ==
  LET gotCred == view.credentials[id]
      creds == {c \in DOMAIN view.credentials :
                  /\ view.credentials[c].issuer = gotCred.issuer
                  /\ view.credentials[c].schema = gotCred.schema}
      others == {c \in creds \ {id} :
                   IF request.revoked /\ view.credentials[c].purpose # NoPurpose
                        /\ view.credentials[c].revoked
                     THEN TRUE
                     ELSE request.suspended /\ view.credentials[c].purpose # NoPurpose
                            /\ view.credentials[c].suspended}
  IN  others \cup (IF request.revoked \/ request.suspended THEN {id} ELSE {})

\* statusPurpose of the regenerated list, service.go 545-549
updateStatusPurposeAlwaysRevocation(request) == StatusRevocation
updateStatusPurpose(request) ==
  IF request.suspended THEN StatusSuspension ELSE StatusRevocation

\* the record updateCredentialStatus stores for the target, service.go 493-500:
\* id, verification method, document and JWT of the record read, flags of the
\* request
UpdatedContainerResigned(gotCred, request) ==
  [gotCred EXCEPT !.revoked = request.revoked, !.suspended = request.suspended,
                  !.jwt = CredentialJWT(gotCred.vm, [revoked |-> request.revoked,
                                                     suspended |-> request.suspended])]
UpdatedContainer(gotCred, request) ==
  [gotCred EXCEPT !.revoked = request.revoked, !.suspended = request.suspended]

\* updateCredentialStatus, service.go 491-580
updateCredentialStatus(view, t, id, request, slcMetadata) ==
  Once(GenerateStatusList2021Credential(
         view, parseIDFromURI(view.credentials[id].list), view.credentials[id].issuer,
         updateStatusPurpose(request),
         revokedOrSuspendedStatusCreds(view, id, request)),
       LAMBDA generated :
  LET gotCred == view.credentials[id]
      container == UpdatedContainer(gotCred, request)
      t1 == StoreCredentialTx(t, id, container)
      signErr == signCredentialJWT(gotCred.vm, gotCred.issuer)
      statusListContainer ==
        [id |-> generated.list.id, issuer |-> generated.list.issuer,
         purpose |-> generated.list.purpose, bits |-> generated.list.bits,
         jwt |-> gotCred.vm]
  IN  IF generated.err # "" THEN Fail(generated.err)
      ELSE IF signErr # "" THEN Fail("could not sign status list credential")
      ELSE Ok(StoreStatusListCredentialTx(t1, slcMetadata, statusListContainer),
              [id |-> NoId, revoked |-> container.revoked,
               suspended |-> container.suspended]))

\* updateCredentialStatusBusinessLogic, service.go 457-489
updateCredentialStatusBusinessLogicUnchecked(view, t, request, slcMetadata) ==
  IF request.id \notin DOMAIN view.credentials
    THEN Fail("could not get credential")
  ELSE IF /\ view.credentials[request.id].revoked = request.revoked
          /\ view.credentials[request.id].suspended = request.suspended
    THEN Ok(t, [id |-> NoId, revoked |-> view.credentials[request.id].revoked,
                suspended |-> view.credentials[request.id].suspended])
  ELSE updateCredentialStatus(view, t, request.id, request, slcMetadata)
updateCredentialStatusBusinessLogicAlwaysWriting(view, t, request, slcMetadata) ==
  IF request.suspended /\ request.revoked
    THEN Fail("cannot update both suspended and revoked status")
  ELSE IF request.id \notin DOMAIN view.credentials
    THEN Fail("could not get credential")
  ELSE updateCredentialStatus(view, t, request.id, request, slcMetadata)
updateCredentialStatusBusinessLogic(view, t, request, slcMetadata) ==
  IF request.suspended /\ request.revoked
    THEN Fail("cannot update both suspended and revoked status")
  ELSE IF request.id \notin DOMAIN view.credentials
    THEN Fail("could not get credential")
  ELSE IF /\ view.credentials[request.id].revoked = request.revoked
          /\ view.credentials[request.id].suspended = request.suspended
    THEN Ok(t, [id |-> NoId, revoked |-> view.credentials[request.id].revoked,
                suspended |-> view.credentials[request.id].suspended])
  ELSE updateCredentialStatus(view, t, request.id, request, slcMetadata)

\* ---------------------------------------------------------------- reads
\* the VC document of a stored credential record
VerifiableCredential(container) ==
  [issuer |-> container.issuer, subject |-> container.subject,
   schema |-> container.schema, evidence |-> container.evidence,
   purpose |-> container.purpose, index |-> container.index, list |-> container.list]

\* storage.GetCredential: the record, or the error of a missing key
\* (part_000 110 and 212)
StorageGetCredential(store, id) ==
  IF id \in DOMAIN store.credentials
    THEN [err |-> "", cred |-> store.credentials[id]]
    ELSE [err |-> "credential not found with id", cred |-> <<>>]

\* GetCredential, service.go 339-359.  A record stored by createCredential
\* carries its id, document and JWT, so that IsValid (345) holds of it.
GetCredentialWithoutJWT(store, id) ==
  LET got == StorageGetCredential(store, id) IN
  IF got.err # ""
    THEN [err |-> got.err, out |-> <<>>]
    ELSE [err |-> "",
          out |-> [id |-> id, credential |-> VerifiableCredential(got.cred),
                   jwt |-> <<>>, revoked |-> got.cred.revoked,
                   suspended |-> got.cred.suspended]]
GetCredential(store, id) ==
  LET got == StorageGetCredential(store, id) IN
  IF got.err # ""
    THEN [err |-> got.err, out |-> <<>>]
    ELSE [err |-> "",
          out |-> [id |-> id, credential |-> VerifiableCredential(got.cred),
                   jwt |-> got.cred.jwt, revoked |-> got.cred.revoked,
                   suspended |-> got.cred.suspended]]

\* GetCredentialStatus, service.go 388-403
GetCredentialStatus(store, id) ==
  LET got == StorageGetCredential(store, id) IN
  IF got.err # ""
    THEN [err |-> got.err, out |-> <<>>]
    ELSE [err |-> "",
          out |-> [revoked |-> got.cred.revoked, suspended |-> got.cred.suspended]]

\* ---------------------------------------------------------------- deletion
\* storage.DeleteCredential: the record is removed; a missing key is no error
\* (part_000 201-204)
StorageDeleteCredential(store, id) ==
  [err |-> "",
   db |-> [store EXCEPT !.credentials =
             [c \in (DOMAIN store.credentials) \ {id} |-> store.credentials[c]]]]

\* DeleteCredential, service.go 590-599: the error it returns and the store it
\* leaves
DeleteCredentialResultMissingIsError(store, id) ==
  LET deleted == StorageDeleteCredential(store, id) IN
  IF deleted.err # "" \/ id \notin DOMAIN store.credentials
    THEN [err |-> "deleting credential with id", db |-> store]
    ELSE [err |-> "", db |-> deleted.db]
DeleteCredentialResult(store, id) ==
  LET deleted == StorageDeleteCredential(store, id) IN
  IF deleted.err # ""
    THEN [err |-> "deleting credential with id", db |-> store]
    ELSE [err |-> "", db |-> deleted.db]

\* ---------------------------------------------------------------- Execute
\* The write set applied to the store in one step.
Apply(t, store) ==
  [credentials |-> Overlay(t.credentials, store.credentials),
   statusLists |-> Overlay(t.statusLists, store.statusLists),
   indexPool |-> Overlay(t.indexPool, store.indexPool),
   currentIndex |-> Overlay(t.currentIndex, store.currentIndex)]

\* The watchable keys a write set changes (credential records are not watched).
Written(t) ==
  {WatchKey("status-list-credential", k) : k \in DOMAIN t.statusLists}
    \cup {WatchKey("status-list-index-pool", k) : k \in DOMAIN t.indexPool}
    \cup {WatchKey("status-list-current-index", k) : k \in DOMAIN t.currentIndex}

\* UUIDs: a fresh one differs from every id stored so far and from the ids of
\* the attempts in flight.
PendingCredIds(p) == UNION {DOMAIN tx[q].credentials : q \in Procs \ {p}}
PendingListIds(p) ==
  UNION {{tx[q].statusLists[k].id : k \in DOMAIN tx[q].statusLists} : q \in Procs \ {p}}
ListIdsOf(store) == {store.statusLists[k].id : k \in DOMAIN store.statusLists}
UUIDs(ids, pairIds) == IF phase = "free" THEN ids ELSE pairIds
FreeCredIds(p) == UUIDs(CredIds, PairCredIds) \ (issued \cup PendingCredIds(p))
FreeListIds(p) == UUIDs(ListIds, PairListIds) \ (ListIdsOf(db) \cup PendingListIds(p))

RECURSIVE SetToSeq(_)
SetToSeq(S) == IF S = {} THEN <<>> ELSE <<Min(S)>> \o SetToSeq(S \ {Min(S)})

\* The closures of a batch run one after the other on the same transaction; the
\* first error ends the run (service.go 632-647 and 676-689).  uuids and draws
\* are what uuid.NewString and the random draw give each closure.
RECURSIVE RunCreatesPrepending(_, _, _, _, _)
RunCreatesPrepending(view, acc, reqs, meta, rnd) ==
  IF reqs = <<>> \/ acc.err # "" \/ acc.redraw THEN acc
  ELSE
    LET r == createCredential(view, acc.tx, Head(reqs), Head(meta),
                              Head(rnd.credIds), Head(rnd.listIds), Head(rnd.draws))
        next == [err |-> r.err, tx |-> r.tx, redraw |-> r.redraw,
                 out |-> IF r.err = "" /\ ~r.redraw THEN <<r.out>> \o acc.out ELSE <<>>]
        rest == [credIds |-> Tail(rnd.credIds), listIds |-> Tail(rnd.listIds),
                 draws |-> Tail(rnd.draws)]
    IN  RunCreatesPrepending(view, next, Tail(reqs), Tail(meta), rest)

RECURSIVE RunCreatesOnSeparateTx(_, _, _, _, _)
RunCreatesOnSeparateTx(view, acc, reqs, meta, rnd) ==
  IF reqs = <<>> \/ acc.err # "" \/ acc.redraw THEN acc
  ELSE
    Once(createCredential(view, EmptyTx, Head(reqs), Head(meta),
                          Head(rnd.credIds), Head(rnd.listIds), Head(rnd.draws)),
         LAMBDA r :
    LET next == [err |-> r.err, tx |-> Apply(r.tx, acc.tx), redraw |-> r.redraw,
                 out |-> IF r.err = "" /\ ~r.redraw THEN Append(acc.out, r.out) ELSE <<>>]
        rest == [credIds |-> Tail(rnd.credIds), listIds |-> Tail(rnd.listIds),
                 draws |-> Tail(rnd.draws)]
    IN  RunCreatesOnSeparateTx(view, next, Tail(reqs), Tail(meta), rest))

RECURSIVE RunCreates(_, _, _, _, _)
RunCreates(view, acc, reqs, meta, rnd) ==
  IF reqs = <<>> \/ acc.err # "" \/ acc.redraw THEN acc
  ELSE
    Once(createCredential(view, acc.tx, Head(reqs), Head(meta),
                          Head(rnd.credIds), Head(rnd.listIds), Head(rnd.draws)),
         LAMBDA r :
    LET next == [err |-> r.err, tx |-> r.tx, redraw |-> r.redraw,
                 out |-> IF r.err = "" /\ ~r.redraw THEN Append(acc.out, r.out) ELSE <<>>]
        rest == [credIds |-> Tail(rnd.credIds), listIds |-> Tail(rnd.listIds),
                 draws |-> Tail(rnd.draws)]
    IN  RunCreates(view, next, Tail(reqs), Tail(meta), rest))

RECURSIVE RunUpdatesSkippingFailures(_, _, _, _)
RunUpdatesSkippingFailures(view, acc, reqs, meta) ==
  IF reqs = <<>> THEN acc
  ELSE
    LET r == updateCredentialStatusBusinessLogic(view, acc.tx, Head(reqs), Head(meta))
        next == IF r.err # "" THEN acc
                ELSE [err |-> "", tx |-> r.tx, redraw |-> FALSE,
                      out |-> Append(acc.out, [r.out EXCEPT !.id = Head(reqs).id])]
    IN  RunUpdatesSkippingFailures(view, next, Tail(reqs), Tail(meta))

RECURSIVE RunUpdates(_, _, _, _)
RunUpdates(view, acc, reqs, meta) ==
  IF reqs = <<>> \/ acc.err # "" THEN acc
  ELSE
    Once(updateCredentialStatusBusinessLogic(view, acc.tx, Head(reqs), Head(meta)),
         LAMBDA r :
    LET next == [err |-> r.err, tx |-> r.tx, redraw |-> FALSE,
                 out |-> IF r.err = ""
                           THEN Append(acc.out, [r.out EXCEPT !.id = Head(reqs).id])
                           ELSE <<>>]
    IN  RunUpdates(view, next, Tail(reqs), Tail(meta)))

StartRun == [err |-> "", tx |-> EmptyTx, out |-> <<>>, redraw |-> FALSE]

\* The business logic function handed to Execute, run once on the committed store.
RunBody(view, o, rnd) ==
  IF o.kind \in {"create", "batchCreate"}
    THEN RunCreates(view, StartRun, o.reqs, o.meta, rnd)
  ELSE IF o.kind = "batchUpdate"
    THEN RunUpdates(view, StartRun, o.reqs, o.meta)
  ELSE Once(updateCredentialStatusBusinessLogic(view, EmptyTx, o.reqs[1], o.meta[1]),
            LAMBDA r : [err |-> r.err, tx |-> r.tx, redraw |-> FALSE,
                        out |-> IF r.err = "" THEN <<r.out>> ELSE <<>>])

\* ---------------------------------------------------------------- calls
\* CreateCredential, service.go 93-131, up to the call of Execute
CreateCredentialNoWatch(p, request) ==
  /\ pc[p] = "idle"
  /\ op' = [op EXCEPT ![p] = [kind |-> "create", reqs |-> <<request>>,
                              meta |-> <<RequestTriple(request)>>]]
  /\ watch' = [watch EXCEPT ![p] = {}]
  /\ pc' = [pc EXCEPT ![p] = "execute"]
  /\ UNCHANGED <<db, issued, dirty, attempts, tx, result, history, keyStore>>
CreateCredential(p, request) ==
  /\ pc[p] = "idle"
  /\ op' = [op EXCEPT ![p] = [kind |-> "create", reqs |-> <<request>>,
                              meta |-> <<RequestTriple(request)>>]]
  /\ watch' = [watch EXCEPT ![p] = CreateWatchKeys(request)]
  /\ pc' = [pc EXCEPT ![p] = "execute"]
  /\ UNCHANGED <<db, issued, dirty, attempts, tx, result, history, keyStore>>

\* BatchCreateCredentials, service.go 601-660, up to the call of Execute
BatchCreateCredentials(p, requests) ==
  /\ pc[p] = "idle"
  /\ op' = [op EXCEPT ![p] =
              [kind |-> "batchCreate", reqs |-> requests,
               meta |-> [i \in DOMAIN requests |-> RequestTriple(requests[i])]]]
  /\ watch' = [watch EXCEPT ![p] =
                 UNION {CreateWatchKeys(requests[i]) : i \in DOMAIN requests}]
  /\ pc' = [pc EXCEPT ![p] = "execute"]
  /\ UNCHANGED <<db, issued, dirty, attempts, tx, result, history, keyStore>>

\* watchKeys of UpdateCredentialStatus, service.go 434-435
updateWatchKeysIndexPool(key) == {WatchKey("status-list-index-pool", key)}
updateWatchKeys(key) == {WatchKey("status-list-credential", key)}

\* UpdateCredentialStatus, service.go 427-449, up to the call of Execute
UpdateCredentialStatus(p, request) ==
  LET key == statusListCredentialWatchKey(db, request.id) IN
  /\ pc[p] = "idle"
  /\ op' = [op EXCEPT ![p] = [kind |-> "update", reqs |-> <<request>>,
                              meta |-> <<key.key>>]]
  /\ IF key.err # ""
       THEN /\ result' = [result EXCEPT ![p] = [err |-> key.err, out |-> <<>>]]
            /\ pc' = [pc EXCEPT ![p] = "done"]
            /\ UNCHANGED watch
       ELSE IF key.key = NilWatchKey
       THEN \* *statusListCredentialWatchKey at 433: nil pointer dereference
            /\ pc' = [pc EXCEPT ![p] = "panic"]
            /\ UNCHANGED <<watch, result>>
       ELSE /\ watch' = [watch EXCEPT ![p] = updateWatchKeys(key.key)]
            /\ pc' = [pc EXCEPT ![p] = "execute"]
            /\ UNCHANGED result
  /\ UNCHANGED <<db, issued, dirty, attempts, tx, history, keyStore>>

\* BatchUpdateCredentialStatus, service.go 662-700, up to the call of Execute
BatchUpdateCredentialStatus(p, requests) ==
  LET keys == [i \in DOMAIN requests |-> statusListCredentialWatchKey(db, requests[i].id)]
      bad == {i \in DOMAIN requests : keys[i].err # "" \/ keys[i].key = NilWatchKey}
  IN
  /\ pc[p] = "idle"
  /\ op' = [op EXCEPT ![p] = [kind |-> "batchUpdate", reqs |-> requests,
                              meta |-> [i \in DOMAIN requests |-> keys[i].key]]]
  /\ IF bad # {} /\ keys[Min(bad)].err # ""
       THEN /\ result' = [result EXCEPT ![p] = [err |-> keys[Min(bad)].err, out |-> <<>>]]
            /\ pc' = [pc EXCEPT ![p] = "done"]
            /\ UNCHANGED watch
       ELSE IF bad # {}
       THEN \* *statusListCredentialWatchKey at 670: nil pointer dereference
            /\ pc' = [pc EXCEPT ![p] = "panic"]
            /\ UNCHANGED <<watch, result>>
       ELSE /\ watch' = [watch EXCEPT ![p] =
                           UNION {updateWatchKeys(keys[i].key) : i \in DOMAIN requests}]
            /\ pc' = [pc EXCEPT ![p] = "execute"]
            /\ UNCHANGED result
  /\ UNCHANGED <<db, issued, dirty, attempts, tx, history, keyStore>>

\* DeleteCredential, service.go 590-599: one storage call outside any transaction
DeleteCredential(id) ==
  /\ db' = DeleteCredentialResult(db, id).db
  /\ UNCHANGED <<issued, procVars, history, keyStore>>

\* Execute: one attempt.  The versions of the watch keys are recorded and the
\* business logic function runs on the committed store; an error ends Execute
\* and the write set is dropped.
ExecuteAttemptWritingThrough(p) ==
  /\ pc[p] = "execute"
  /\ op[p].kind \in {"create", "batchCreate"} => Cardinality(FreeCredIds(p)) >= Len(op[p].reqs)
  /\ \E draws \in [1 .. Len(op[p].reqs) -> Indices] :
       \E r \in {RunBody(db, op[p],
                         [credIds |-> SetToSeq(FreeCredIds(p)),
                          listIds |-> SetToSeq(FreeListIds(p)), draws |-> draws])} :
       /\ ~r.redraw
       /\ IF r.err # ""
            THEN /\ result' = [result EXCEPT ![p] = [err |-> r.err, out |-> <<>>]]
                 /\ tx' = [tx EXCEPT ![p] = EmptyTx]
                 /\ pc' = [pc EXCEPT ![p] = "done"]
                 /\ db' = db
            ELSE /\ result' = [result EXCEPT ![p] = [err |-> "", out |-> r.out]]
                 /\ tx' = [tx EXCEPT ![p] = r.tx]
                 /\ pc' = [pc EXCEPT ![p] = "commit"]
                 /\ db' = Apply(r.tx, db)
  /\ dirty' = [dirty EXCEPT ![p] = FALSE]
  /\ UNCHANGED <<issued, op, watch, attempts, history, keyStore>>
ExecuteAttempt(p) ==
  /\ pc[p] = "execute"
  /\ op[p].kind \in {"create", "batchCreate"} => Cardinality(FreeCredIds(p)) >= Len(op[p].reqs)
  /\ \E draws \in [1 .. Len(op[p].reqs) -> Indices] :
       \E r \in {RunBody(db, op[p],
                         [credIds |-> SetToSeq(FreeCredIds(p)),
                          listIds |-> SetToSeq(FreeListIds(p)), draws |-> draws])} :
       /\ ~r.redraw
       /\ IF r.err # ""
            THEN /\ result' = [result EXCEPT ![p] = [err |-> r.err, out |-> <<>>]]
                 /\ tx' = [tx EXCEPT ![p] = EmptyTx]
                 /\ pc' = [pc EXCEPT ![p] = "done"]
            ELSE /\ result' = [result EXCEPT ![p] = [err |-> "", out |-> r.out]]
                 /\ tx' = [tx EXCEPT ![p] = r.tx]
                 /\ pc' = [pc EXCEPT ![p] = "commit"]
  /\ dirty' = [dirty EXCEPT ![p] = FALSE]
  /\ UNCHANGED <<db, issued, op, watch, attempts, history, keyStore>>

\* Execute: commit.  A watched key that changed since the attempt started aborts
\* it, and the function is run again, at most MaxRetries times.  The write set
\* of an attempt that a commit dooms is dropped at once: its own commit can only
\* discard it.
ExecuteCommitRetryForever(p) ==
  /\ pc[p] = "commit"
  /\ IF dirty[p]
       THEN /\ dirty' = [dirty EXCEPT ![p] = FALSE]
            /\ attempts' = [attempts EXCEPT ![p] = Min({@ + 1, MaxRetries + 1})]
            /\ pc' = [pc EXCEPT ![p] = "execute"]
            /\ UNCHANGED <<db, issued, tx, result>>
       ELSE LET hit == {q \in Procs \ {p} :
                          pc[q] = "commit" /\ watch[q] \cap Written(tx[p]) # {}}
            IN
            /\ db' = Apply(tx[p], db)
            /\ issued' = issued \cup DOMAIN tx[p].credentials
            /\ dirty' = [q \in Procs |-> dirty[q] \/ q \in hit]
            /\ tx' = [q \in Procs |-> IF q = p \/ q \in hit THEN EmptyTx ELSE tx[q]]
            /\ result' = [q \in Procs |-> IF q \in hit THEN NoResult ELSE result[q]]
            /\ pc' = [pc EXCEPT ![p] = "done"]
            /\ UNCHANGED attempts
  /\ UNCHANGED <<op, watch, history, keyStore>>
ExecuteCommit(p) ==
  /\ pc[p] = "commit"
  /\ IF dirty[p]
       THEN /\ dirty' = [dirty EXCEPT ![p] = FALSE]
            /\ IF attempts[p] < MaxRetries
                 THEN /\ attempts' = [attempts EXCEPT ![p] = @ + 1]
                      /\ pc' = [pc EXCEPT ![p] = "execute"]
                      /\ UNCHANGED result
                 ELSE /\ pc' = [pc EXCEPT ![p] = "done"]
                      /\ UNCHANGED attempts
                      /\ result' = [result EXCEPT ![p] =
                                      [err |-> "execute: transaction conflict", out |-> <<>>]]
            /\ UNCHANGED <<db, issued, tx>>
       ELSE LET hit == {q \in Procs \ {p} :
                          pc[q] = "commit" /\ watch[q] \cap Written(tx[p]) # {}}
            IN
            /\ db' = Apply(tx[p], db)
            /\ issued' = issued \cup DOMAIN tx[p].credentials
            /\ dirty' = [q \in Procs |-> dirty[q] \/ q \in hit]
            /\ tx' = [q \in Procs |-> IF q = p \/ q \in hit THEN EmptyTx ELSE tx[q]]
            /\ result' = [q \in Procs |-> IF q \in hit THEN NoResult ELSE result[q]]
            /\ pc' = [pc EXCEPT ![p] = "done"]
            /\ UNCHANGED attempts
  /\ UNCHANGED <<op, watch, history, keyStore>>

\* the call returns to its caller
Return(p) ==
  /\ pc[p] = "done"
  /\ pc' = [pc EXCEPT ![p] = "idle"]
  /\ op' = [op EXCEPT ![p] = NoOp]
  /\ watch' = [watch EXCEPT ![p] = {}]
  /\ result' = [result EXCEPT ![p] = NoResult]
  /\ attempts' = [attempts EXCEPT ![p] = 0]
  /\ UNCHANGED <<db, issued, tx, dirty, history, keyStore>>

\* ---------------------------------------------------------------- listing
\* A filter names one of the fields the storage indexes by value and the value
\* asked for; the empty schema value asks for the credentials without schema
\* (part_000 112-118).
ListFilters ==
  [field : {"issuer"}, value : Issuers] \cup [field : {"subject"}, value : Subjects]
    \cup [field : {"schema"}, value : Schemas \cup {SchemaUnknown}]
NoFilter == [field |-> "none", value |-> ""]

\* storage.ListCredentials with an unbounded page: the stored records whose
\* indexed field has the value
StorageListCredentials(store, filter) ==
  {id \in DOMAIN store.credentials :
     filter.field # "none" => store.credentials[id][filter.field] = filter.value}

\* ListCredentials, service.go 361-386: one container per record storage returned
ListCredentialsIgnoringFilter(store, filter) ==
  {[id |-> id, credential |-> VerifiableCredential(store.credentials[id]),
    jwt |-> store.credentials[id].jwt, revoked |-> store.credentials[id].revoked,
    suspended |-> store.credentials[id].suspended] :
     id \in StorageListCredentials(store, NoFilter)}
ListCredentials(store, filter) ==
  {[id |-> id, credential |-> VerifiableCredential(store.credentials[id]),
    jwt |-> store.credentials[id].jwt, revoked |-> store.credentials[id].revoked,
    suspended |-> store.credentials[id].suspended] :
     id \in StorageListCredentials(store, filter)}

\* ---------------------------------------------------------------- key store
\* What happens to a key outside the credential service: it is revoked, it is
\* removed, or it comes under another controller.  signCredentialJWT reads the
\* key store as it is when it signs (service.go 269-278).
RevokeKey(k) ==
  /\ k \in DOMAIN keyStore
  /\ ~keyStore[k].revoked
  /\ keyStore' = [keyStore EXCEPT ![k].revoked = TRUE]
  /\ UNCHANGED <<db, issued, procVars, history>>

RemoveKey(k) ==
  /\ k \in DOMAIN keyStore
  /\ keyStore' = [x \in (DOMAIN keyStore) \ {k} |-> keyStore[x]]
  /\ UNCHANGED <<db, issued, procVars, history>>

ReassignKey(k, controller) ==
  /\ k \in DOMAIN keyStore
  /\ keyStore[k].controller # controller
  /\ keyStore' = [keyStore EXCEPT ![k].controller = controller]
  /\ UNCHANGED <<db, issued, procVars, history>>

\* ---------------------------------------------------------------- verification
\* A verify request holds a data-integrity credential (none, one without a
\* proof, one with a proof) and possibly a JWT.
NoCredential == "none"
Unproved == "unproved"
Proved == "proved"
VerifyRequests == [credential : {NoCredential, Unproved, Proved}, jwt : BOOLEAN]

\* What a verifier returns: no error, or the error of the level that failed
\* (signature, expiry, data model, schema).
Verifies == ""
VerifierErrors ==
  {"invalid signature", "credential has expired",
   "credential does not comply with the VC Data Model",
   "credential data does not comply with the schema"}
Verdicts == {Verifies} \cup VerifierErrors

\* VerifyCredentialRequest.IsValid, service.go 297-305
VerifyCredentialRequestIsValid(request) ==
  IF request.credential = NoCredential /\ ~request.jwt
    THEN "either a credential or a credential JWT must be provided"
  ELSE IF request.credential = Proved /\ request.jwt
    THEN "only one of credential or credential JWT can be provided"
  ELSE ""

\* service.go 318-337; jwtVerdict and dataIntegrityVerdict are what
\* VerifyJWTCredential and VerifyDataIntegrityCredential return for the request
VerifyCredentialFailureIsError(request, jwtVerdict, dataIntegrityVerdict) ==
  LET verdict == IF request.jwt THEN jwtVerdict ELSE dataIntegrityVerdict
  IN  IF VerifyCredentialRequestIsValid(request) # ""
        THEN [err |-> "invalid verify credential request", out |-> <<>>]
      ELSE IF verdict # Verifies
        THEN [err |-> verdict, out |-> <<>>]
      ELSE [err |-> "", out |-> <<[verified |-> TRUE, reason |-> ""]>>]
VerifyCredential(request, jwtVerdict, dataIntegrityVerdict) ==
  IF VerifyCredentialRequestIsValid(request) # ""
    THEN [err |-> "invalid verify credential request", out |-> <<>>]
  ELSE IF request.jwt
    THEN IF jwtVerdict # Verifies
           THEN [err |-> "", out |-> <<[verified |-> FALSE, reason |-> jwtVerdict]>>]
           ELSE [err |-> "", out |-> <<[verified |-> TRUE, reason |-> ""]>>]
  ELSE IF dataIntegrityVerdict # Verifies
    THEN [err |-> "", out |-> <<[verified |-> FALSE, reason |-> dataIntegrityVerdict]>>]
    ELSE [err |-> "", out |-> <<[verified |-> TRUE, reason |-> ""]>>]

\* One call of VerifyCredential: it reads and writes no storage.
Verify(p, request, jwtVerdict, dataIntegrityVerdict) ==
  /\ pc[p] = "idle"
  /\ op' = [op EXCEPT ![p] = [kind |-> "verify", reqs |-> <<request>>,
                               meta |-> <<[jwt |-> jwtVerdict,
                                           dataIntegrity |-> dataIntegrityVerdict]>>]]
  /\ result' = [result EXCEPT ![p] =
                  VerifyCredential(request, jwtVerdict, dataIntegrityVerdict)]
  /\ pc' = [pc EXCEPT ![p] = "done"]
  /\ UNCHANGED <<db, issued, watch, dirty, attempts, tx, history, keyStore>>

\* ---------------------------------------------------------------- specifications
Fresh ==
  /\ db = EmptyDb
  /\ issued = {}
  /\ op = [p \in Procs |-> NoOp]
  /\ watch = [p \in Procs |-> {}]
  /\ dirty = [p \in Procs |-> FALSE]
  /\ attempts = [p \in Procs |-> 0]
  /\ tx = [p \in Procs |-> EmptyTx]
  /\ result = [p \in Procs |-> NoResult]
  /\ snap = [db |-> EmptyDb, issued |-> {}]
  /\ keyStore = InitialKeyStore

Init ==
  /\ Fresh
  /\ pc = [p \in Procs |-> "idle"]
  /\ phase = "free"

\* Requests with a plain document: one subject, data without an id of its own
\* that complies with the schema, no evidence.
CreateRequests(issuerSchemas, keys) ==
  {[issuer |-> is[1], schema |-> is[2], revocable |-> r, suspendable |-> s, vm |-> k,
    subject |-> SubjectX, dataId |-> NoDataId, data |-> Conforming,
    evidence |-> NoEvidence] :
     is \in issuerSchemas, r \in BOOLEAN, s \in BOOLEAN, k \in keys}
UpdateRequests ==
  [id : CredIds, revoked : BOOLEAN, suspended : BOOLEAN]

\* Two callers, one issuer and schema, both purposes.
ConcCreates ==
  {r \in CreateRequests({<<IssuerA, NoSchema>>}, {KeyA}) : hasStatus(r) /\ isStatusValid(r)}
ConcUpdates == {r \in UpdateRequests : ~(r.revoked /\ r.suspended)}
ConcBatchCreates ==
  {<<a, b>> : a \in {r \in ConcCreates : r.revocable}, b \in {r \in ConcCreates : r.revocable}}
ConcBatchUpdates ==
  {<<a, b>> : a \in {r \in UpdateRequests : r.id = 1 /\ r.revoked /\ ~r.suspended},
              b \in {r \in UpdateRequests : r.id = 2 /\ r.revoked /\ ~r.suspended}}

Calls(p) ==
  \/ \E request \in ConcCreates : CreateCredential(p, request)
  \/ \E requests \in ConcBatchCreates : BatchCreateCredentials(p, requests)
  \/ \E request \in ConcUpdates : UpdateCredentialStatus(p, request)
  \/ \E requests \in ConcBatchUpdates : BatchUpdateCredentialStatus(p, requests)

Next ==
  \/ \E p \in Procs : Calls(p) \/ ExecuteAttempt(p) \/ ExecuteCommit(p) \/ Return(p)
  \/ \E id \in CredIds : DeleteCredential(id)

Spec == Init /\ [][Next]_vars

\* One caller, two issuers, two schemas, both purposes, every key.
SeqCreates ==
  CreateRequests({<<IssuerA, NoSchema>>, <<IssuerA, SchemaS>>, <<IssuerB, NoSchema>>},
                 {KeyA, KeyB})
    \cup CreateRequests({<<IssuerA, NoSchema>>}, {KeyARevoked})
SeqBatchCreates ==
  {<<a, b>> : a \in {r \in SeqCreates : r.issuer = IssuerA /\ r.vm = KeyA /\ r.revocable},
              b \in {r \in SeqCreates : r.issuer = IssuerA /\ r.schema = NoSchema
                                          /\ r.vm = KeyA /\ ~r.suspendable}}
SeqBatchUpdates ==
  {<<a, b>> : a \in {r \in UpdateRequests : r.id = 1 /\ ~r.suspended},
              b \in {r \in UpdateRequests : r.id = 2 /\ r.revoked}}

NextSeq ==
  \/ \E request \in SeqCreates : CreateCredential("p1", request)
  \/ \E requests \in SeqBatchCreates : BatchCreateCredentials("p1", requests)
  \/ \E request \in UpdateRequests : UpdateCredentialStatus("p1", request)
  \/ \E requests \in SeqBatchUpdates : BatchUpdateCredentialStatus("p1", requests)
  \/ \E id \in CredIds : DeleteCredential(id)
  \/ ExecuteAttempt("p1")
  \/ ExecuteCommit("p1")
  \/ Return("p1")

SpecSeq == Init /\ [][NextSeq]_vars

\* Two callers making single CreateCredential and UpdateCredentialStatus calls.
NextCalls ==
  \E p \in Procs :
    \/ \E request \in ConcCreates : CreateCredential(p, request)
    \/ \E request \in ConcUpdates : UpdateCredentialStatus(p, request)
    \/ ExecuteAttempt(p)
    \/ ExecuteCommit(p)
    \/ Return(p)

SpecCalls == Init /\ [][NextCalls]_vars

\* The two-call experiment: caller p1 brings the store to some state while p2
\* waits, then each of the two makes one call, and the two calls run
\* interleaved.
InitPair ==
  /\ Fresh
  /\ pc = [p \in Procs |-> IF p = "p1" THEN "idle" ELSE "wait"]
  /\ phase = "setup"

Fork ==
  /\ phase = "setup"
  /\ pc["p1"] = "idle"
  /\ phase' = "pair"
  /\ snap' = [db |-> db, issued |-> issued]
  /\ pc' = [p \in Procs |-> "idle"]
  /\ UNCHANGED <<db, issued, op, watch, dirty, attempts, tx, result, keyStore>>

SetupReturn == phase = "setup" /\ Return("p1")

PairBatchCreates ==
  {<<a, b>> : a \in {r \in ConcCreates : r.revocable}, b \in ConcCreates}
PairUpdates == {r \in [id : PairCredIds, revoked : BOOLEAN, suspended : BOOLEAN] :
                  ~(r.revoked /\ r.suspended)}

NextPair ==
  \/ Fork
  \/ SetupReturn
  \/ \E p \in Procs :
       \/ \E request \in ConcCreates : CreateCredential(p, request)
       \/ \E requests \in PairBatchCreates : BatchCreateCredentials(p, requests)
       \/ \E request \in PairUpdates : UpdateCredentialStatus(p, request)
       \/ \E requests \in ConcBatchUpdates : BatchUpdateCredentialStatus(p, requests)
       \/ ExecuteAttempt(p)
       \/ ExecuteCommit(p)

SpecPair == InitPair /\ [][NextPair]_vars

\* One caller and documents of every kind: two issuers, subjects and schemas,
\* with and without evidence and status, and for each way a creation can fail
\* a request that differs from a good one in that one respect.
DocGoodCreates ==
  {[issuer |-> ik[1], vm |-> ik[2], schema |-> sc, subject |-> su,
    dataId |-> NoDataId, data |-> Conforming, evidence |-> ev,
    revocable |-> r, suspendable |-> FALSE] :
     ik \in {<<IssuerA, KeyA>>, <<IssuerB, KeyB>>}, sc \in Schemas, su \in Subjects,
     ev \in {NoEvidence, <<EvidenceGood, EvidenceGood>>}, r \in BOOLEAN}
DocBase ==
  {g \in DocGoodCreates : g.issuer = IssuerA /\ g.schema = SchemaS
                            /\ g.subject = SubjectX /\ g.evidence = NoEvidence}
DocBadCreates ==
  UNION {{[b EXCEPT !.schema = SchemaUnknown],
          [b EXCEPT !.data = NonConforming],
          [b EXCEPT !.dataId = SubjectY],
          [b EXCEPT !.vm = KeyUnknown],
          [b EXCEPT !.vm = KeyB],
          [b EXCEPT !.vm = KeyARevoked],
          [b EXCEPT !.evidence = <<EvidenceString, EvidenceNoId>>],
          [b EXCEPT !.evidence = <<EvidenceGood, EvidenceNoId>>],
          [b EXCEPT !.evidence = <<EvidenceNoType, EvidenceString>>],
          [b EXCEPT !.revocable = TRUE, !.suspendable = TRUE]} : b \in DocBase}

\* data that carries the requested subject as its own id
DocOwnIdCreates == {[b EXCEPT !.dataId = b.subject] : b \in DocBase}

NextDoc ==
  \/ \E request \in DocGoodCreates \cup DocBadCreates \cup DocOwnIdCreates :
       CreateCredential("p1", request)
  \/ \E id \in CredIds : DeleteCredential(id)
  \/ ExecuteAttempt("p1")
  \/ ExecuteCommit("p1")
  \/ Return("p1")

SpecDoc == Init /\ [][NextDoc]_vars

\* One caller issuing and updating status credentials of issuer A while the
\* issuer's key is revoked, removed or reassigned.
KeyCreates ==
  {r \in CreateRequests({<<IssuerA, NoSchema>>}, {KeyA, KeyB}) : hasStatus(r) /\ isStatusValid(r)}

NextKeys ==
  \/ \E request \in KeyCreates : CreateCredential("p1", request)
  \/ \E request \in ConcUpdates : UpdateCredentialStatus("p1", request)
  \/ RevokeKey(KeyA)
  \/ RemoveKey(KeyA)
  \/ ReassignKey(KeyA, IssuerB)
  \/ ExecuteAttempt("p1")
  \/ ExecuteCommit("p1")
  \/ Return("p1")

SpecKeys == Init /\ [][NextKeys]_vars

\* Verification alone: every request with every answer of the two verifiers.
NextVerify ==
  \/ \E p \in Procs, request \in VerifyRequests :
       \E jwtVerdict \in Verdicts, dataIntegrityVerdict \in Verdicts :
         Verify(p, request, jwtVerdict, dataIntegrityVerdict)
  \/ \E p \in Procs : Return(p)

SpecVerify == Init /\ [][NextVerify]_vars

\* A store whose status credential is missing: the store one status creation
\* leaves, without the status credential record of the triple.  Index pool and
\* cursor are in place.  GetStatusListCredentialKeyData finds nothing for the
\* credential's triple there, which is the case service.go 722-724 is for.
OrphanStore(request) ==
  LET r == RunBody(EmptyDb,
                   [kind |-> "create", reqs |-> <<request>>,
                    meta |-> <<RequestTriple(request)>>],
                   [credIds |-> <<1>>, listIds |-> <<1>>, draws |-> <<0>>])
  IN  [Apply(r.tx, EmptyDb) EXCEPT !.statusLists = NoWrites]

InitOrphan ==
  /\ keyStore = InitialKeyStore
  /\ \E request \in ConcCreates : db = OrphanStore(request)
  /\ issued = {1}
  /\ op = [p \in Procs |-> NoOp]
  /\ watch = [p \in Procs |-> {}]
  /\ dirty = [p \in Procs |-> FALSE]
  /\ attempts = [p \in Procs |-> 0]
  /\ tx = [p \in Procs |-> EmptyTx]
  /\ result = [p \in Procs |-> NoResult]
  /\ snap = [db |-> EmptyDb, issued |-> {}]
  /\ pc = [p \in Procs |-> "idle"]
  /\ phase = "free"

NextOrphan ==
  \E p \in Procs :
    \/ \E request \in ConcCreates : CreateCredential(p, request)
    \/ \E request \in ConcUpdates : UpdateCredentialStatus(p, request)
    \/ \E requests \in ConcBatchUpdates : BatchUpdateCredentialStatus(p, requests)
    \/ ExecuteAttempt(p)
    \/ ExecuteCommit(p)
    \/ Return(p)

SpecOrphan == InitOrphan /\ [][NextOrphan]_vars

\* Every call that entered Execute keeps running: the callers are goroutines
\* the scheduler does not starve.  The supply of UUIDs of the model being
\* finite, a creation is started only when ids are left for it and for the
\* creations in flight.
InExecute(p) == pc[p] \in {"execute", "commit"}
Reserved(p) ==
  Cardinality({q \in Procs \ {p} : InExecute(q) /\ op[q].kind = "create"})
    + 2 * Cardinality({q \in Procs \ {p} : InExecute(q) /\ op[q].kind = "batchCreate"})
CanCreate(p, n) == Cardinality(issued) + Reserved(p) + n <= MaxCreds

LiveCreate(p) ==
  /\ CanCreate(p, 1)
  /\ \E request \in ConcCreates : CreateCredential(p, request)
LiveBatchCreate(p) ==
  /\ CanCreate(p, 2)
  /\ \E requests \in ConcBatchCreates : BatchCreateCredentials(p, requests)
LiveUpdate(p) == \E request \in ConcUpdates : UpdateCredentialStatus(p, request)
LiveBatchUpdate(p) ==
  \E requests \in ConcBatchUpdates : BatchUpdateCredentialStatus(p, requests)

NextLive ==
  \E p \in Procs :
    \/ LiveCreate(p)
    \/ LiveBatchCreate(p)
    \/ LiveUpdate(p)
    \/ LiveBatchUpdate(p)
    \/ ExecuteAttempt(p)
    \/ ExecuteCommit(p)
    \/ Return(p)

Fairness == \A p \in Procs : WF_vars(ExecuteAttempt(p)) /\ WF_vars(ExecuteCommit(p))

SpecLive == Init /\ [][NextLive]_vars /\ Fairness

\* ---------------------------------------------------------------- properties
Stored == DOMAIN db.credentials
StatusCreds == {c \in Stored : db.credentials[c].purpose # NoPurpose}
TripleOf(c) ==
  [issuer |-> db.credentials[c].issuer, schema |-> db.credentials[c].schema,
   purpose |-> db.credentials[c].purpose]
Members(t) == {c \in StatusCreds : TripleOf(c) = t}
PurposeFlag(c) ==
  IF db.credentials[c].purpose = StatusRevocation
    THEN db.credentials[c].revoked
    ELSE db.credentials[c].suspended

\* C1: in every reachable state, under every interleaving of create, batch
\* create, status update and delete calls, two distinct stored credentials of
\* the same <issuer, schema, purpose> triple carry different statusListIndex
\* values.
IndexUniqueWithinTriple ==
  \A c \in StatusCreds : \A d \in StatusCreds :
    (c # d /\ TripleOf(c) = TripleOf(d))
      => db.credentials[c].index # db.credentials[d].index

\* Two credentials of one triple are stored, the second issued by a create
\* that met a conflict and ran again, and one of them has been revoked since.
IndexUniqueWithinTripleWitness ==
  \E c \in StatusCreds : \E d \in StatusCreds :
    /\ c # d
    /\ TripleOf(c) = TripleOf(d)
    /\ db.credentials[c].revoked
    /\ db.credentials[c].index # db.credentials[d].index
    /\ \E p \in Procs : pc[p] = "done" /\ op[p].kind = "create" /\ attempts[p] = 1
                          /\ result[p].err = "" /\ result[p].out[1].id = d

\* C2: after any sequence of successful CreateCredential and
\* UpdateCredentialStatus calls, for every stored credential of every triple
\* the bit at its statusListIndex in the triple's stored status credential is
\* set if and only if the credential's flag for its purpose is true.
BitMatchesFlag ==
  \A c \in StatusCreds :
    (db.credentials[c].index \in db.statusLists[TripleOf(c)].bits) <=> PurposeFlag(c)

\* C3: concurrent CreateCredential calls for one triple that all succeed
\* return distinct credentials with pairwise distinct indices, and the
\* triple's index pool and cursor record exactly the indices assigned to the
\* triple's credentials.
ConcurrentCreatesDistinctIndices ==
  \A p \in Procs : \A q \in Procs \ {p} :
    ( /\ pc[p] = "done" /\ pc[q] = "done"
      /\ op[p].kind = "create" /\ op[q].kind = "create"
      /\ op[p].meta = op[q].meta
      /\ result[p].err = "" /\ result[q].err = "" )
    => LET t == op[p].meta[1]
           c == result[p].out[1].id
           d == result[q].out[1].id
       IN  /\ c # d
           /\ {c, d} \subseteq Members(t)
           /\ db.credentials[c].index # db.credentials[d].index
           /\ db.indexPool[t] = {db.credentials[m].index : m \in Members(t)}
           /\ Cardinality(db.indexPool[t]) = Cardinality(Members(t))
           /\ db.currentIndex[t] = Cardinality(Members(t))

\* Both callers have returned from a successful create for the same triple,
\* and one of the two met a conflict and ran its body again.
ConcurrentCreatesDistinctIndicesWitness ==
  /\ \A p \in Procs : pc[p] = "done" /\ op[p].kind = "create" /\ result[p].err = ""
  /\ op["p1"].meta = op["p2"].meta
  /\ \E p \in Procs : attempts[p] = 1
  /\ Cardinality(db.indexPool[op["p1"].meta[1]]) = 2

\* C4: when UpdateCredentialStatus calls on distinct credentials of one triple
\* have run concurrently and all succeeded, the stored status credential has a
\* bit set for exactly the credentials of the triple whose flag is set.
ConcurrentUpdatesKeepBits ==
  \A p \in Procs : \A q \in Procs \ {p} :
    ( /\ pc[p] = "done" /\ pc[q] = "done"
      /\ op[p].kind = "update" /\ op[q].kind = "update"
      /\ op[p].meta = op[q].meta
      /\ op[p].reqs[1].id # op[q].reqs[1].id
      /\ result[p].err = "" /\ result[q].err = "" )
    => LET t == op[p].meta[1]
       IN  db.statusLists[t].bits =
             {db.credentials[m].index : m \in {n \in Members(t) : PurposeFlag(n)}}

\* C5: two stored credentials created with a status reference the same
\* statusListCredential URI exactly when they share issuer, schema id
\* (possibly empty) and purpose.
SameTripleSameStatusListURI ==
  \A c \in StatusCreds : \A d \in StatusCreds :
    (TripleOf(c) = TripleOf(d)) <=> (db.credentials[c].list = db.credentials[d].list)

\* Two credentials of the same issuer and purpose, one with a schema and one
\* without, are stored and reference different status credentials.
SameTripleSameStatusListURIWitness ==
  \E c \in StatusCreds : \E d \in StatusCreds :
    /\ db.credentials[c].issuer = db.credentials[d].issuer
    /\ db.credentials[c].purpose = db.credentials[d].purpose
    /\ db.credentials[c].schema = NoSchema
    /\ db.credentials[d].schema = SchemaS
    /\ db.credentials[c].list # db.credentials[d].list

\* C6: in every reachable state every triple with a member credential has
\* exactly one stored status credential, which exists together with the
\* triple's index-pool and current-index records; the status credentials of
\* different triples are different ones, and a member references its
\* triple's.
TripleRecordsExistTogether ==
  /\ DOMAIN db.statusLists = DOMAIN db.indexPool
  /\ DOMAIN db.statusLists = DOMAIN db.currentIndex
  /\ \A c \in StatusCreds :
       /\ TripleOf(c) \in DOMAIN db.statusLists
       /\ db.credentials[c].list = StatusListURI(db.statusLists[TripleOf(c)].id)
  /\ \A t \in DOMAIN db.statusLists : \A u \in DOMAIN db.statusLists :
       t # u => db.statusLists[t].id # db.statusLists[u].id

\* A revocable and a suspendable credential of the same issuer and schema are
\* stored: two triples, each with its three records.
TripleRecordsExistTogetherWitness ==
  /\ \E c \in StatusCreds : \E d \in StatusCreds :
       /\ db.credentials[c].issuer = db.credentials[d].issuer
       /\ db.credentials[c].schema = db.credentials[d].schema
       /\ db.credentials[c].purpose = StatusRevocation
       /\ db.credentials[d].purpose = StatusSuspension
  /\ Cardinality(DOMAIN db.statusLists) = 2
  /\ Cardinality(DOMAIN db.indexPool) = 2
  /\ Cardinality(DOMAIN db.currentIndex) = 2

\* An ExecuteAttempt step of caller p that runs the body of p's call to its end
BodyRuns(p) == pc[p] = "execute" /\ pc'[p] # "execute"

\* C8: an UpdateCredentialStatus that asserts suspended on a credential created
\* as revocable, or revoked on one created as suspendable, fails with
\* 'different status purpose', and the stored credentials and the stored
\* status credentials, index pools and cursors are as before the call.
CrossPurposeUpdate(p) ==
  /\ op[p].kind = "update"
  /\ op[p].reqs[1].id \in StatusCreds
  /\ op[p].reqs[1].revoked # op[p].reqs[1].suspended
  /\ op[p].reqs[1].suspended = (db.credentials[op[p].reqs[1].id].purpose = StatusRevocation)
CrossPurposeUpdateFails ==
  [][\A p \in Procs :
       (BodyRuns(p) /\ CrossPurposeUpdate(p))
         => /\ pc'[p] = "done"
            /\ result'[p].err = "different status purpose"
            /\ tx'[p] = EmptyTx
            /\ db' = db]_vars

\* The call has returned the error on a revoked credential of a revocation
\* triple, which is stored as it was.
CrossPurposeUpdateFailsWitness ==
  \E p \in Procs :
    /\ pc[p] = "done"
    /\ CrossPurposeUpdate(p)
    /\ op[p].reqs[1].suspended
    /\ result[p].err = "different status purpose"
    /\ db.credentials[op[p].reqs[1].id].revoked
    /\ ~db.credentials[op[p].reqs[1].id].suspended
    /\ db.credentials[op[p].reqs[1].id].index
         \in db.statusLists[TripleOf(op[p].reqs[1].id)].bits

\* C9: no stored credential has revoked and suspended both true; a
\* revocation-purpose credential never has suspended true, a
\* suspension-purpose credential never has revoked true, a credential without
\* credentialStatus has both flags false; and no step changes the purpose of
\* a stored credential, so a credential only moves between ACTIVE and the one
\* flagged state of its purpose.
FlagsFollowPurpose ==
  \A c \in Stored :
    /\ ~(db.credentials[c].revoked /\ db.credentials[c].suspended)
    /\ db.credentials[c].purpose = StatusRevocation => ~db.credentials[c].suspended
    /\ db.credentials[c].purpose = StatusSuspension => ~db.credentials[c].revoked
    /\ db.credentials[c].purpose = NoPurpose
         => ~db.credentials[c].revoked /\ ~db.credentials[c].suspended
BothStatusesCreate(p) ==
  /\ op[p].kind = "create"
  /\ op[p].reqs[1].revocable
  /\ op[p].reqs[1].suspendable
CreateWithBothStatusesFails ==
  [][\A p \in Procs :
       (BodyRuns(p) /\ BothStatusesCreate(p))
         => /\ pc'[p] = "done"
            /\ result'[p] = [err |-> "credential may have at most one status", out |-> <<>>]
            /\ tx'[p] = EmptyTx
            /\ db' = db
            /\ issued' = issued]_vars

\* The call has returned the error while a credential issued before is the
\* only one stored.
CreateWithBothStatusesFailsWitness ==
  \E p \in Procs :
    /\ pc[p] = "done"
    /\ BothStatusesCreate(p)
    /\ result[p].err = "credential may have at most one status"
    /\ Cardinality(Stored) = 1
    /\ issued = Stored

\* The sequences uuid.NewString can give n closures: n distinct unused ids.
FreshIds(free, n) ==
  {f \in [1 .. n -> free] : \A i \in 1 .. n : \A j \in 1 .. n : i # j => f[i] # f[j]}

\* What a call returns and leaves behind when it runs alone on a store, for
\* every choice of UUIDs and random draws.
SerialOutcomes(store, ids, o) ==
  LET n == Len(o.reqs)
      keys == [i \in 1 .. n |-> statusListCredentialWatchKey(store, o.reqs[i].id)]
      bad == {i \in 1 .. n : keys[i].err # ""}
      outcome(r) ==
        IF r.err # ""
          THEN [db |-> store, issued |-> ids, result |-> [err |-> r.err, out |-> <<>>]]
          ELSE [db |-> Apply(r.tx, store),
                issued |-> ids \cup DOMAIN r.tx.credentials,
                result |-> [err |-> "", out |-> r.out]]
  IN  IF o.kind \in {"update", "batchUpdate"}
        THEN IF bad # {}
               THEN {[db |-> store, issued |-> ids,
                      result |-> [err |-> keys[Min(bad)].err, out |-> <<>>]]}
               ELSE {outcome(RunBody(store,
                                     [o EXCEPT !.meta = [i \in 1 .. n |-> keys[i].key]],
                                     <<>>))}
        ELSE {outcome(RunBody(store, o, [credIds |-> c, listIds |-> l, draws |-> d])) :
                <<c, l, d>> \in
                  {x \in FreshIds(PairCredIds \ ids, n)
                           \X FreshIds(PairListIds \ ListIdsOf(store), n)
                           \X [1 .. n -> Indices] :
                     ~RunBody(store, o,
                              [credIds |-> x[1], listIds |-> x[2], draws |-> x[3]]).redraw}}

\* The two calls of the experiment, run one after the other from the store
\* they started on, first a then b, end in the present store with the
\* present results.
SerialOrder(a, b) ==
  \E m \in SerialOutcomes(snap.db, snap.issued, op[a]) :
    /\ m.result = result[a]
    /\ \E n \in SerialOutcomes(m.db, m.issued, op[b]) :
         /\ n.result = result[b]
         /\ n.db = db
         /\ n.issued = issued

PairDone ==
  /\ phase = "pair"
  /\ \A p \in Procs : pc[p] = "done"
  /\ watch["p1"] \cap watch["p2"] # {}

\* C7: when two operations (CreateCredential, UpdateCredentialStatus or their
\* batch variants) whose watch-key sets intersect have run concurrently, the
\* committed store and the results returned to the two callers are those of
\* running the two operations one after the other in some order.
IntersectingOperationsSerialize ==
  PairDone => (SerialOrder("p1", "p2") \/ SerialOrder("p2", "p1"))

\* Two updates of one triple have run interleaved, one met a conflict and ran
\* again, and only one of the two orders explains the outcome.
IntersectingOperationsSerializeWitness ==
  /\ PairDone
  /\ \A p \in Procs : op[p].kind = "update" /\ result[p].err = ""
  /\ \E p \in Procs : attempts[p] = 1
  /\ ~(SerialOrder("p1", "p2") /\ SerialOrder("p2", "p1"))

\* C11: UpdateCredentialStatus with revoked and suspended both true on a
\* credential that has a credentialStatus returns 'cannot update both
\* suspended and revoked status' and no response, and leaves the store (the
\* credential's flags and the status credential) unchanged.
BothFlagsUpdate(p) ==
  /\ op[p].kind = "update"
  /\ op[p].reqs[1].id \in StatusCreds
  /\ op[p].reqs[1].revoked
  /\ op[p].reqs[1].suspended
UpdateWithBothFlagsFails ==
  [][\A p \in Procs :
       (BodyRuns(p) /\ BothFlagsUpdate(p))
         => /\ pc'[p] = "done"
            /\ result'[p] = [err |-> "cannot update both suspended and revoked status",
                             out |-> <<>>]
            /\ tx'[p] = EmptyTx
            /\ db' = db]_vars

\* The call has returned the error on a revoked credential, whose flags and
\* bit are as they were.
UpdateWithBothFlagsFailsWitness ==
  \E p \in Procs :
    /\ pc[p] = "done"
    /\ BothFlagsUpdate(p)
    /\ result[p].err = "cannot update both suspended and revoked status"
    /\ db.credentials[op[p].reqs[1].id].revoked
    /\ ~db.credentials[op[p].reqs[1].id].suspended
    /\ db.credentials[op[p].reqs[1].id].index
         \in db.statusLists[TripleOf(op[p].reqs[1].id)].bits

\* A step by which caller p enters UpdateCredentialStatus
UpdateCalled(p) == pc[p] = "idle" /\ pc'[p] # "idle" /\ op'[p].kind = "update"

\* C12: UpdateCredentialStatus, with any requested flags, on a stored
\* credential that has no credentialStatus fails with 'has no
\* credentialStatus field' before Execute is called: no transaction is
\* started and no stored state changes.
UpdateWithoutStatusFails ==
  [][\A p \in Procs :
       (UpdateCalled(p) /\ op'[p].reqs[1].id \in Stored \ StatusCreds)
         => /\ pc'[p] = "done"
            /\ result'[p] = [err |-> "has no credentialStatus field", out |-> <<>>]
            /\ watch'[p] = {}
            /\ tx' = tx
            /\ attempts' = attempts
            /\ db' = db]_vars

\* The call has returned the error for a credential stored without status,
\* next to nothing else in the store.
UpdateWithoutStatusFailsWitness ==
  \E p \in Procs :
    /\ pc[p] = "done"
    /\ op[p].kind = "update"
    /\ op[p].reqs[1].id \in Stored \ StatusCreds
    /\ op[p].reqs[1].revoked
    /\ result[p].err = "has no credentialStatus field"
    /\ ~db.credentials[op[p].reqs[1].id].revoked
    /\ DOMAIN db.statusLists = {}

\* C13: CreateCredential whose signing key is revoked always fails, and
\* nothing of the attempt persists: no credential record, no index added to
\* the pool, no cursor advance, no status credential created or changed.
RevokedKeyCreate(p) ==
  /\ op[p].kind = "create"
  /\ op[p].reqs[1].vm \in DOMAIN keyStore
  /\ keyStore[op[p].reqs[1].vm].revoked
CreateWithRevokedKeyFails ==
  [][\A p \in Procs :
       (BodyRuns(p) /\ RevokedKeyCreate(p))
         => /\ pc'[p] = "done"
            /\ result'[p].err # ""
            /\ result'[p].out = <<>>
            /\ tx'[p] = EmptyTx
            /\ db' = db
            /\ issued' = issued]_vars

\* The call asked for a status in a triple whose list exists, so that the
\* index was allocated before signing; it has returned the error and pool
\* and cursor hold the one index issued before.
CreateWithRevokedKeyFailsWitness ==
  \E p \in Procs :
    /\ pc[p] = "done"
    /\ RevokedKeyCreate(p)
    /\ op[p].reqs[1].revocable /\ ~op[p].reqs[1].suspendable
    /\ result[p].err = "cannot use revoked key"
    /\ op[p].meta[1] \in DOMAIN db.indexPool
    /\ Cardinality(db.indexPool[op[p].meta[1]]) = 1
    /\ db.currentIndex[op[p].meta[1]] = 1
    /\ Cardinality(Stored) = 1

\* A step by which caller p's Execute commits its write set
Commits(p) == pc[p] = "commit" /\ ~dirty[p] /\ pc'[p] = "done"

Batch(p) == op[p].kind \in {"batchCreate", "batchUpdate"}

\* What every component of p's batch asked for is in the store.
ComponentsStored(p, store) ==
  \A i \in DOMAIN op[p].reqs :
    IF op[p].kind = "batchCreate"
      THEN /\ result[p].out[i].id \in DOMAIN store.credentials
           /\ store.credentials[result[p].out[i].id] = result[p].out[i].container
           /\ hasStatus(op[p].reqs[i]) =>
                /\ op[p].meta[i] \in DOMAIN store.statusLists
                /\ result[p].out[i].container.index \in store.indexPool[op[p].meta[i]]
      ELSE /\ op[p].reqs[i].id \in DOMAIN store.credentials
           /\ store.credentials[op[p].reqs[i].id].revoked = op[p].reqs[i].revoked
           /\ store.credentials[op[p].reqs[i].id].suspended = op[p].reqs[i].suspended

\* C14: BatchCreateCredentials and BatchUpdateCredentialStatus are
\* all-or-nothing.  The store changes only by the commit of a call that then
\* returns success; a batch whose component fails returns the error with its
\* write set dropped and the store as it was; a batch that returns success has
\* persisted its whole write set, with every component's record in it.
BatchAllOrNothing ==
  [][/\ db' # db => \E q \in Procs : Commits(q) /\ result'[q].err = ""
                                       /\ db' = Apply(tx[q], db)
     /\ \A p \in Procs :
          /\ (Batch(p) /\ pc[p] # "done" /\ pc'[p] = "done" /\ result'[p].err # "")
               => db' = db /\ issued' = issued /\ tx'[p] = EmptyTx
                    /\ result'[p].out = <<>>
          /\ (Batch(p) /\ Commits(p))
               => /\ result'[p] = result[p]
                  /\ db' = Apply(tx[p], db)
                  /\ ComponentsStored(p, db')]_vars

\* A batch creation whose first component took the last free index and whose
\* second found none has returned the error, and the store is as it was when
\* the call started.
BatchAllOrNothingWitness ==
  \E p \in Procs :
    /\ phase = "pair"
    /\ pc[p] = "done"
    /\ op[p].kind = "batchCreate"
    /\ op[p].meta[1] = op[p].meta[2]
    /\ result[p].err = "could not create status list entry for credential"
    /\ db = snap.db
    /\ Cardinality(db.indexPool[op[p].meta[1]]) = BitstringLength - 1

\* A batch update whose second component failed after the first had written
\* has returned the error, and the first component's credential is unchanged.
BatchUpdateFailedWitness ==
  \E p \in Procs :
    /\ phase = "pair"
    /\ pc[p] = "done"
    /\ op[p].kind = "batchUpdate"
    /\ result[p].err = "different status purpose"
    /\ db = snap.db
    /\ ~db.credentials[1].revoked
    /\ db.credentials[1].purpose = StatusRevocation

\* A batch has committed and both components are stored.
BatchCommittedWitness ==
  \E p \in Procs :
    /\ phase = "pair"
    /\ pc[p] = "done"
    /\ Batch(p)
    /\ result[p].err = ""
    /\ db # snap.db
    /\ ComponentsStored(p, db)

\* The i-th element of a batch response answers the i-th request.
AnswersRequest(o, out, i, store) ==
  IF o.kind = "batchCreate"
    THEN /\ out[i].container.issuer = o.reqs[i].issuer
         /\ out[i].container.schema = o.reqs[i].schema
         /\ out[i].container.vm = o.reqs[i].vm
         /\ out[i].container.purpose
              = (IF hasStatus(o.reqs[i]) THEN RequestPurpose(o.reqs[i]) ELSE NoPurpose)
         /\ \A j \in DOMAIN out : j # i => out[j].id # out[i].id
         /\ out[i].id \in DOMAIN store.credentials
         /\ store.credentials[out[i].id] = out[i].container
    ELSE /\ out[i].id = o.reqs[i].id
         /\ out[i].revoked = o.reqs[i].revoked
         /\ out[i].suspended = o.reqs[i].suspended
         /\ o.reqs[i].id \in DOMAIN store.credentials =>
              /\ out[i].revoked = store.credentials[o.reqs[i].id].revoked
              /\ out[i].suspended = store.credentials[o.reqs[i].id].suspended

\* C15: on success the response of a batch call has as many elements as the
\* request; the i-th element of a BatchCreateCredentials response is the
\* credential created for the i-th request, and the i-th element of a
\* BatchUpdateCredentialStatus response carries the id of the i-th request and
\* the status resulting from it.
BatchResponseInRequestOrder ==
  [][\A p \in Procs :
       (Batch(p) /\ Commits(p))
         => /\ result'[p].err = ""
            /\ Len(result'[p].out) = Len(op[p].reqs)
            /\ \A i \in DOMAIN op[p].reqs : AnswersRequest(op[p], result'[p].out, i, db')]_vars

\* A batch creation of two credentials that differ in schema and status has
\* returned them in the order asked.
BatchResponseInRequestOrderWitness ==
  \E p \in Procs :
    /\ pc[p] = "done"
    /\ op[p].kind = "batchCreate"
    /\ result[p].err = ""
    /\ op[p].reqs[1].schema = SchemaS /\ op[p].reqs[2].schema = NoSchema
    /\ hasStatus(op[p].reqs[1]) /\ ~hasStatus(op[p].reqs[2])
    /\ result[p].out[1].container.schema = SchemaS
    /\ result[p].out[2].container.purpose = NoPurpose

\* A batch update of two credentials to different statuses has returned them
\* in the order asked.
BatchUpdateResponseWitness ==
  \E p \in Procs :
    /\ pc[p] = "done"
    /\ op[p].kind = "batchUpdate"
    /\ result[p].err = ""
    /\ ~op[p].reqs[1].revoked /\ op[p].reqs[2].revoked
    /\ result[p].out = <<[id |-> 1, revoked |-> FALSE, suspended |-> FALSE],
                         [id |-> 2, revoked |-> TRUE, suspended |-> FALSE]>>
    /\ db.credentials[2].revoked

\* A successful single update of a stored suspension credential commits
SuspensionUpdateCommits(p) ==
  /\ Commits(p)
  /\ op[p].kind = "update"
  /\ ~op[p].reqs[1].revoked
  /\ op[p].reqs[1].id \in DOMAIN db'.credentials
  /\ db'.credentials[op[p].reqs[1].id].purpose = StatusSuspension
  /\ ~op[p].reqs[1].suspended => (op[p].reqs[1].id \in Stored
                                    /\ db.credentials[op[p].reqs[1].id].suspended)

\* What GetCredentialStatus and the status credential say of id in store
StatusAndBit(store, id) ==
  LET c == store.credentials[id]
      t == [issuer |-> c.issuer, schema |-> c.schema, purpose |-> c.purpose]
  IN  [status |-> GetCredentialStatus(store, id),
       bit |-> c.index \in store.statusLists[t].bits]

\* C16: for a credential created as suspendable, after a successful
\* UpdateCredentialStatus(suspended=true) GetCredentialStatus returns
\* suspended=true, revoked=false and the bit at the credential's index in the
\* triple's status credential is 1; after a following successful
\* UpdateCredentialStatus(suspended=false) it returns suspended=false,
\* revoked=false and the bit is 0.
SuspendToggle(p) ==
  SuspensionUpdateCommits(p)
    => StatusAndBit(db', op[p].reqs[1].id)
         = [status |-> [err |-> "",
                        out |-> [revoked |-> FALSE,
                                 suspended |-> op[p].reqs[1].suspended]],
            bit |-> op[p].reqs[1].suspended]
SuspendThenUnsuspendToggles == [][\A p \in Procs : SuspendToggle(p)]_vars

\* The same, for updates that start in a store where every bit of the status
\* credentials agrees with its credential's flag.
SuspendTogglesFromAgreeingStore ==
  [][BitMatchesFlag => \A p \in Procs : SuspendToggle(p)]_vars

\* A suspended credential has been unsuspended again, flag and bit cleared.
SuspendTogglesFromAgreeingStoreWitness ==
  \E p \in Procs :
    /\ pc[p] = "done"
    /\ op[p].kind = "update"
    /\ result[p] = [err |-> "", out |-> <<[id |-> NoId, revoked |-> FALSE, suspended |-> FALSE]>>]
    /\ op[p].reqs[1].id \in Stored
    /\ db.credentials[op[p].reqs[1].id].purpose = StatusSuspension
    /\ StatusAndBit(db, op[p].reqs[1].id).bit = FALSE
    /\ db.currentIndex[TripleOf(op[p].reqs[1].id)] = 1
    /\ BitMatchesFlag

\* Credential X, returned by p's successful CreateCredential, as it was returned
Created(p) == result[p].out[1]

\* GetCredential(X) succeeds with the document and the JWT of the response.
GetsWhatWasCreated(store, created) ==
  LET got == GetCredential(store, created.id) IN
  /\ got.err = ""
  /\ got.out.id = created.id
  /\ got.out.credential = VerifiableCredential(created.container)
  /\ got.out.jwt = created.container.jwt
  /\ got.out.jwt.claims = got.out.credential

CreateReturned(p) == pc[p] = "done" /\ op[p].kind = "create" /\ result[p].err = ""

\* C17: after a successful CreateCredential returning local id X,
\* GetCredential(X), with no intervening update or delete of X, succeeds and
\* returns the same VC document and the same signed JWT as the create
\* response.  X is stored when the call returns, and as long as no delete has
\* removed it GetCredential returns document and JWT of the response, whatever
\* other calls and updates of X's status run in between.
CreateThenGetReturnsSame ==
  /\ [][\A p \in Procs :
          (op[p].kind = "create" /\ Commits(p))
            => /\ result'[p].err = ""
               /\ GetsWhatWasCreated(db', result'[p].out[1])]_vars
  /\ [](\A p \in Procs :
          (CreateReturned(p) /\ Created(p).id \in Stored)
            => GetsWhatWasCreated(db, Created(p)))

\* The create has returned a credential with a status; since then the other
\* caller has revoked another credential of its triple, and GetCredential
\* returns the created document and JWT.
CreateThenGetReturnsSameWitness ==
  \E p \in Procs :
    /\ CreateReturned(p)
    /\ Created(p).id \in Stored
    /\ Created(p).container.purpose = StatusRevocation
    /\ GetsWhatWasCreated(db, Created(p))
    /\ \E c \in Members(TripleOf(Created(p).id)) \ {Created(p).id} :
         db.credentials[c].revoked

\* What DeleteCredential(id) does to a store: no error, the same store after a
\* second call, and a GetCredential that does not find id.
DeleteIsQuiet(store, id) ==
  LET once == DeleteCredentialResult(store, id)
      twice == DeleteCredentialResult(once.db, id)
  IN  /\ once.err = ""
      /\ twice = once
      /\ GetCredential(once.db, id) = [err |-> "credential not found with id", out |-> <<>>]

\* C18: DeleteCredential never returns an error for any id, stored or unknown,
\* and deleting twice has the same effect as deleting once; after
\* DeleteCredential(X), GetCredential(X) fails with 'credential not found with
\* id'.  Stated of a delete in every reachable store, and of every step that
\* removes a record.
DeleteIdempotentThenNotFound ==
  /\ [](\A id \in CredIds : DeleteIsQuiet(db, id))
  /\ [][\A id \in Stored :
          id \notin DOMAIN db'.credentials
            => /\ db' = DeleteCredentialResult(db, id).db
               /\ GetCredential(db', id).err = "credential not found with id"
               /\ UNCHANGED <<issued, procVars>>]_vars

\* A credential that was stored has been deleted and GetCredential does not
\* find it, while another credential is still stored.
DeleteIdempotentThenNotFoundWitness ==
  /\ Stored # {}
  /\ \E id \in issued \ Stored : GetCredential(db, id).err = "credential not found with id"

\* C19: in every reachable state, also after DeleteCredential of a revoked or
\* suspended credential, a bit i of a triple's stored status credential is set
\* only if a stored credential of that triple has index i and its purpose flag
\* true.
NoBitWithoutCredential ==
  \A t \in DOMAIN db.statusLists :
    \A i \in db.statusLists[t].bits :
      \E c \in Members(t) : db.credentials[c].index = i /\ PurposeFlag(c)

\* C20: every CreateCredential, UpdateCredentialStatus and batch call
\* terminates: under any schedule of conflicting commits by other operations
\* Execute re-runs the body at most MaxRetries times and then returns the
\* body's result, the body's error or a conflict error.
ExecuteTerminates ==
  /\ [](\A p \in Procs : attempts[p] <= MaxRetries)
  /\ [][\A p \in Procs :
          /\ (BodyRuns(p) /\ pc'[p] = "done")
               => result'[p].err \notin {"", "execute: transaction conflict"}
          /\ (pc[p] = "commit" /\ pc'[p] = "done")
               => \/ result'[p] = result[p] /\ result[p].err = "" /\ ~dirty[p]
                  \/ /\ result'[p] = [err |-> "execute: transaction conflict", out |-> <<>>]
                     /\ dirty[p] /\ attempts[p] = MaxRetries
                     /\ db' = db
          /\ (pc[p] = "commit" /\ pc'[p] = "execute")
               => attempts'[p] = attempts[p] + 1]_vars
  /\ \A p \in Procs : InExecute(p) ~> (pc[p] = "done")

\* A call that met a conflict, ran again and met another has returned the
\* conflict error.
ExecuteTerminatesWitness ==
  \E p \in Procs :
    /\ pc[p] = "done"
    /\ attempts[p] = MaxRetries
    /\ result[p].err = "execute: transaction conflict"

\* The first element of p's evidence list that is no object or lacks id or type
BadElements(evidence) ==
  {i \in DOMAIN evidence :
     evidence[i].kind # "object" \/ "id" \notin evidence[i].keys
       \/ "type" \notin evidence[i].keys}
CreateOf(p) == op[p].reqs[1]

\* C21: CreateCredential whose evidence list contains an element that is not
\* an object, or an object lacking id or type, fails ('invalid evidence
\* format' / "missing required 'id' or 'type'"), stores no credential and,
\* when a status was requested, consumes no status-list index; with
\* well-formed evidence it succeeds and the stored VC carries exactly the given
\* evidence.
EvidenceValidated ==
  [][\A p \in Procs :
       /\ (BodyRuns(p) /\ op[p].kind = "create" /\ BadElements(CreateOf(p).evidence) # {})
            => /\ pc'[p] = "done"
               /\ result'[p].out = <<>>
               /\ result'[p].err =
                    (IF CreateOf(p).evidence[Min(BadElements(CreateOf(p).evidence))].kind
                          # "object"
                       THEN "invalid evidence format"
                       ELSE "missing required 'id' or 'type'")
               /\ tx'[p] = EmptyTx
               /\ db' = db
               /\ issued' = issued
       /\ (BodyRuns(p) /\ op[p].kind = "create" /\ CreateOf(p) \in DocGoodCreates)
            => pc'[p] = "commit" /\ result'[p].err = ""
       /\ (Commits(p) /\ op[p].kind = "create")
            => /\ db'.credentials[result[p].out[1].id].evidence = CreateOf(p).evidence
               /\ GetCredential(db', result[p].out[1].id).out.credential.evidence
                    = CreateOf(p).evidence]_vars

\* A creation with status and an evidence element lacking id has failed after
\* its index was drawn, and the pool of its triple holds the one index issued
\* before.
EvidenceValidatedWitness ==
  \E p \in Procs :
    /\ pc[p] = "done"
    /\ op[p].kind = "create"
    /\ CreateOf(p).revocable
    /\ CreateOf(p).evidence = <<EvidenceGood, EvidenceNoId>>
    /\ result[p].err = "missing required 'id' or 'type'"
    /\ op[p].meta[1] \in DOMAIN db.indexPool
    /\ Cardinality(db.indexPool[op[p].meta[1]]) = 1
    /\ db.currentIndex[op[p].meta[1]] = 1
    /\ Cardinality(Stored) = 1

\* A credential created with evidence is stored with it.
EvidenceStoredWitness ==
  \E p \in Procs :
    /\ pc[p] = "done"
    /\ op[p].kind = "create"
    /\ result[p].err = ""
    /\ CreateOf(p).evidence = <<EvidenceGood, EvidenceGood>>
    /\ result[p].out[1].id \in Stored
    /\ db.credentials[result[p].out[1].id].evidence = <<EvidenceGood, EvidenceGood>>

\* The verifier's answer to the request of p's verify call
VerdictOf(p) ==
  IF op[p].reqs[1].jwt THEN op[p].meta[1].jwt ELSE op[p].meta[1].dataIntegrity
WellFormed(request) ==
  /\ request.credential # NoCredential \/ request.jwt
  /\ ~(request.credential = Proved /\ request.jwt)

\* C22: VerifyCredential on a well-formed request never returns an error
\* because verification failed: for every verifier failure it returns
\* (verified=false, non-empty reason, nil error), and verified=true exactly
\* when the verifier reports no failure; it returns an error only for an
\* invalid request.
VerificationFailureIsNoError ==
  \A p \in Procs :
    (pc[p] = "done" /\ op[p].kind = "verify") =>
      /\ WellFormed(op[p].reqs[1]) <=> result[p].err = ""
      /\ ~WellFormed(op[p].reqs[1]) => result[p].out = <<>>
      /\ WellFormed(op[p].reqs[1]) =>
           /\ Len(result[p].out) = 1
           /\ result[p].out[1].verified <=> VerdictOf(p) = Verifies
           /\ ~result[p].out[1].verified =>
                /\ result[p].out[1].reason # ""
                /\ result[p].out[1].reason = VerdictOf(p)

\* A credential given without a proof next to a JWT whose signature is invalid:
\* the JWT is verified, and the answer is verified=false without an error.
VerificationFailureIsNoErrorWitness ==
  \E p \in Procs :
    /\ pc[p] = "done"
    /\ op[p].kind = "verify"
    /\ op[p].reqs[1] = [credential |-> Unproved, jwt |-> TRUE]
    /\ op[p].meta[1] = [jwt |-> "invalid signature", dataIntegrity |-> Verifies]
    /\ result[p] = [err |-> "", out |-> <<[verified |-> FALSE, reason |-> "invalid signature"]>>]

\* The local ids ListCredentials returns for a filter
Listed(store, filter) == {c.id : c \in ListCredentials(store, filter)}

\* C23: after any sequence of successful creates and deletes, ListCredentials
\* filtered by issuer (resp. subject, schema) returns exactly the stored
\* credentials whose issuer (subject, schema id) equals the filter value; the
\* filter schema="" returns exactly the stored credentials with no schema; a
\* failed create contributes nothing.  In every state the listed containers are
\* the stored credentials with the value; a committing create adds its id to
\* the lists of the values of its request and to no other, and every other step
\* (a failed create, a delete) only removes from a list what left the store.
ListReturnsExactlyMatching ==
  /\ [](\A f \in ListFilters :
          /\ \A c \in ListCredentials(db, f) :
               /\ c.id \in Stored
               /\ c.credential[f.field] = f.value
               /\ c.credential = VerifiableCredential(db.credentials[c.id])
               /\ c.jwt = db.credentials[c.id].jwt
          /\ \A id \in Stored :
               VerifiableCredential(db.credentials[id])[f.field] = f.value
                 => id \in Listed(db, f))
  /\ [][\A f \in ListFilters :
          IF \E p \in Procs : Commits(p) /\ op[p].kind = "create"
            THEN \A p \in Procs :
                   (Commits(p) /\ op[p].kind = "create") =>
                     Listed(db', f) =
                       Listed(db, f) \cup
                         (IF CreateOf(p)[f.field] = f.value
                            THEN {result[p].out[1].id} ELSE {})
            ELSE Listed(db', f) = Listed(db, f) \cap DOMAIN db'.credentials]_vars

\* A credential of issuer A without schema is stored and a create of the same
\* issuer and subject with an unknown schema has failed: the lists of the
\* issuer, of the subject and of schema "" hold the one credential, and the
\* lists of the unknown schema and of the other issuer are empty.
ListReturnsExactlyMatchingWitness ==
  /\ Stored = {1}
  /\ Listed(db, [field |-> "issuer", value |-> IssuerA]) = {1}
  /\ Listed(db, [field |-> "issuer", value |-> IssuerB]) = {}
  /\ Listed(db, [field |-> "subject", value |-> SubjectX]) = {1}
  /\ Listed(db, [field |-> "schema", value |-> NoSchema]) = {1}
  /\ Listed(db, [field |-> "schema", value |-> SchemaS]) = {}
  /\ Listed(db, [field |-> "schema", value |-> SchemaUnknown]) = {}
  /\ \E p \in Procs :
       /\ pc[p] = "done"
       /\ op[p].kind = "create"
       /\ CreateOf(p).schema = SchemaUnknown
       /\ result[p].err # ""

\* Two credentials of one issuer are listed for it, one of them for schema "".
ListTwoWitness ==
  /\ Listed(db, [field |-> "issuer", value |-> IssuerA]) = {1, 2}
  /\ Cardinality(Listed(db, [field |-> "schema", value |-> NoSchema])) = 1
  /\ Cardinality(Listed(db, [field |-> "subject", value |-> SubjectY])) = 1

\* The flag of its purpose that store holds for credential c
FlagIn(store, c) ==
  IF store.credentials[c].purpose = StatusRevocation
    THEN store.credentials[c].revoked
    ELSE store.credentials[c].suspended

\* The stored credentials of the triple of credential id, id itself left out
OthersOfTriple(store, id) ==
  {c \in (DOMAIN store.credentials) \ {id} :
     /\ store.credentials[c].issuer = store.credentials[id].issuer
     /\ store.credentials[c].schema = store.credentials[id].schema
     /\ store.credentials[c].purpose = store.credentials[id].purpose}

\* p's single update commits what it wrote
UpdateCommits(p) ==
  /\ Commits(p)
  /\ op[p].kind = "update"
  /\ tx[p] # EmptyTx
  /\ op[p].reqs[1].id \in DOMAIN db'.credentials

\* C24: after a successful UpdateCredentialStatus on credential A of triple T,
\* whether it asserts or clears A's flag, the bits set in T's regenerated
\* status credential are exactly the indices of the other stored credentials
\* of T whose flag is true, plus A's index iff the request asserts the flag;
\* clearing A's flag leaves the bits of the others set.
RegeneratedListHoldsOthers ==
  [][\A p \in Procs :
       UpdateCommits(p) =>
         LET id == op[p].reqs[1].id
             t == [issuer |-> db'.credentials[id].issuer,
                   schema |-> db'.credentials[id].schema,
                   purpose |-> db'.credentials[id].purpose]
         IN  db'.statusLists[t].bits =
               {db'.credentials[c].index :
                  c \in {o \in OthersOfTriple(db', id) : FlagIn(db', o)}}
                 \cup (IF op[p].reqs[1].revoked \/ op[p].reqs[1].suspended
                         THEN {db'.credentials[id].index} ELSE {})]_vars

\* The store after the requests were applied one after the other, each as a
\* single UpdateCredentialStatus that commits before the next one starts
RECURSIVE SequentialUpdates(_, _, _)
SequentialUpdates(store, reqs, meta) ==
  IF reqs = <<>> THEN store
  ELSE SequentialUpdates(
         Apply(updateCredentialStatusBusinessLogic(store, EmptyTx, Head(reqs), Head(meta)).tx,
               store),
         Tail(reqs), Tail(meta))

\* C25: a successful BatchUpdateCredentialStatus has the same effect on the
\* store as applying its components one after the other, in request order, as
\* single updates: two components on distinct credentials of one triple that
\* both assert the flag leave both bits set, and each component observes the
\* writes of the earlier ones.
BatchUpdateIsSequential ==
  [][\A p \in Procs :
       (Commits(p) /\ op[p].kind = "batchUpdate")
         => db' = SequentialUpdates(db, op[p].reqs, op[p].meta)]_vars

\* The components of p's batch create that request a status, by position
StatusItems(p) == {i \in DOMAIN op[p].reqs : hasStatus(op[p].reqs[i])}

StatusListKeepsPurpose ==
  \A t \in DOMAIN db.statusLists : db.statusLists[t].purpose = t.purpose

\* A step of caller p's CreateCredential call
CreateSteps(p) == pc'[p] # pc[p] /\ op'[p].kind = "create"

\* C28: every CreateCredential call that returns an error (unknown schema id,
\* schema validation failure, subject/id conflict, key not found, controller
\* mismatch, revoked key, invalid evidence, or exhausted retries) leaves the
\* whole store as before: the step by which a call ends in an error changes no
\* record and drops the write set, and the only step of a call that changes a
\* record is the one by which it ends without error.
FailedCreateLeavesStore ==
  [][\A p \in Procs :
       CreateSteps(p) =>
         /\ (pc'[p] = "done" /\ result'[p].err # "")
              => db' = db /\ tx'[p] = EmptyTx /\ result'[p].out = <<>>
         /\ db' # db => pc'[p] = "done" /\ result'[p].err = ""]_vars

\* On a store that holds a credential and the status list of its triple, a
\* creation for that triple has failed on the schema's data check, after its
\* status entry was drawn.
FailedCreateLeavesStoreWitness ==
  \E p \in Procs :
    /\ pc[p] = "done"
    /\ op[p].kind = "create"
    /\ CreateOf(p).revocable
    /\ result[p].err = "credential data does not comply with the provided schema"
    /\ Stored # {}
    /\ op[p].meta[1] \in DOMAIN db.statusLists
    /\ Cardinality(db.indexPool[op[p].meta[1]]) = 1

\* A call has ended with the error of exhausted retries.
CreateRetriesExhaustedWitness ==
  \E p \in Procs :
    /\ pc[p] = "done"
    /\ op[p].kind = "create"
    /\ result[p].err = "execute: transaction conflict"

\* The request of p's single update asks for the pair of flags the store holds
SamePair(p) ==
  /\ op[p].kind = "update"
  /\ op[p].reqs[1].id \in Stored
  /\ db.credentials[op[p].reqs[1].id].revoked = op[p].reqs[1].revoked
  /\ db.credentials[op[p].reqs[1].id].suspended = op[p].reqs[1].suspended

\* C29: UpdateCredentialStatus whose requested (revoked, suspended) pair equals
\* the stored pair returns the current status without error and writes
\* nothing: the function ends with an empty write set, and the commit of an
\* empty write set leaves every record as it is.
SamePairUpdateWritesNothing ==
  [][\A p \in Procs :
       /\ (BodyRuns(p) /\ SamePair(p))
            => /\ pc'[p] = "commit"
               /\ result'[p] =
                    [err |-> "",
                     out |-> <<[id |-> NoId,
                                revoked |-> db.credentials[op[p].reqs[1].id].revoked,
                                suspended |-> db.credentials[op[p].reqs[1].id].suspended]>>]
               /\ tx'[p] = EmptyTx
               /\ db' = db
       /\ (Commits(p) /\ op[p].kind = "update" /\ tx[p] = EmptyTx)
            => db' = db /\ result'[p] = result[p]]_vars

\* The function has run for a request to revoke a credential stored as revoked:
\* the write set is empty and its status credential has the credential's bit.
SamePairUpdateWritesNothingWitness ==
  \E p \in Procs :
    /\ pc[p] = "commit"
    /\ SamePair(p)
    /\ op[p].reqs[1].revoked
    /\ tx[p] = EmptyTx
    /\ result[p].err = ""
    /\ db.credentials[op[p].reqs[1].id].index
         \in db.statusLists[TripleOf(op[p].reqs[1].id)].bits

\* C30: a successful UpdateCredentialStatus replaces the status credential of
\* the credential's triple with one of the same URI (credential id) and the
\* same issuer, stored under the same triple key; it never creates an
\* additional status credential, and it leaves those of the other triples as
\* they are.
UpdateReplacesListInPlace ==
  [][\A p \in Procs :
       UpdateCommits(p) =>
         LET id == op[p].reqs[1].id
             t == [issuer |-> db'.credentials[id].issuer,
                   schema |-> db'.credentials[id].schema,
                   purpose |-> db'.credentials[id].purpose]
         IN  /\ DOMAIN db'.statusLists = DOMAIN db.statusLists
             /\ t \in DOMAIN db.statusLists
             /\ DOMAIN tx[p].statusLists = {t}
             /\ db'.statusLists[t].id = db.statusLists[t].id
             /\ StatusListURI(db'.statusLists[t].id) = db'.credentials[id].list
             /\ db'.statusLists[t].issuer = db.statusLists[t].issuer
             /\ db'.statusLists[t].issuer = t.issuer
             /\ \A k \in (DOMAIN db.statusLists) \ {t} :
                  db'.statusLists[k] = db.statusLists[k]
             /\ ListIdsOf(db') = ListIdsOf(db)]_vars

\* A suspension credential was suspended while its issuer also has a revocation
\* list: two status credentials are stored, and the suspension triple's has the
\* credential's bit.
UpdateReplacesListInPlaceWitness ==
  \E p \in Procs :
    /\ pc[p] = "done"
    /\ op[p].kind = "update"
    /\ result[p].err = ""
    /\ op[p].reqs[1].suspended
    /\ op[p].reqs[1].id \in Stored
    /\ db.credentials[op[p].reqs[1].id].suspended
    /\ Cardinality(DOMAIN db.statusLists) = 2
    /\ Cardinality(ListIdsOf(db)) = 2
    /\ db.statusLists[TripleOf(op[p].reqs[1].id)].bits
         = {db.credentials[op[p].reqs[1].id].index}
    /\ StatusListURI(db.statusLists[TripleOf(op[p].reqs[1].id)].id)
         = db.credentials[op[p].reqs[1].id].list

\* The triple of credential id in store
TripleIn(store, id) ==
  [issuer |-> store.credentials[id].issuer, schema |-> store.credentials[id].schema,
   purpose |-> store.credentials[id].purpose]

\* C31: a successful UpdateCredentialStatus on a credential of triple T leaves
\* unchanged the status credential, index pool and cursor of every other
\* triple, the one of the same issuer and schema and the other purpose
\* included, and the stored record, flags included, of every credential other
\* than the target.
UpdateLeavesOtherTriples ==
  [][\A p \in Procs :
       UpdateCommits(p) =>
         LET id == op[p].reqs[1].id
             t == TripleIn(db', id)
         IN  /\ \A k \in (DOMAIN db.statusLists) \ {t} :
                  /\ k \in DOMAIN db'.statusLists
                  /\ db'.statusLists[k] = db.statusLists[k]
             /\ DOMAIN db'.statusLists \subseteq (DOMAIN db.statusLists) \cup {t}
             /\ db'.indexPool = db.indexPool
             /\ db'.currentIndex = db.currentIndex
             /\ \A c \in (DOMAIN db.credentials) \ {id} :
                  /\ c \in DOMAIN db'.credentials
                  /\ db'.credentials[c] = db.credentials[c]
             /\ DOMAIN db'.credentials \subseteq (DOMAIN db.credentials) \cup {id}]_vars

\* A revocation credential was revoked while a suspended credential of the same
\* issuer and schema is stored: the suspension triple's list still has its bit.
UpdateLeavesOtherTriplesWitness ==
  \E p \in Procs :
    /\ pc[p] = "done"
    /\ op[p].kind = "update"
    /\ result[p].err = ""
    /\ op[p].reqs[1].revoked
    /\ op[p].reqs[1].id \in Stored
    /\ db.credentials[op[p].reqs[1].id].revoked
    /\ \E c \in Stored \ {op[p].reqs[1].id} :
         /\ db.credentials[c].issuer = db.credentials[op[p].reqs[1].id].issuer
         /\ db.credentials[c].schema = db.credentials[op[p].reqs[1].id].schema
         /\ db.credentials[c].purpose = StatusSuspension
         /\ db.credentials[c].suspended
         /\ db.statusLists[TripleOf(c)].bits = {db.credentials[c].index}
    /\ db.statusLists[TripleOf(op[p].reqs[1].id)].bits
         = {db.credentials[op[p].reqs[1].id].index}

\* What a stored record holds besides its two flags: the document with its
\* credentialStatus, the JWT and the verification method id
Unflagged(container) == [container EXCEPT !.revoked = FALSE, !.suspended = FALSE]

\* C32: UpdateCredentialStatus changes only the revoked/suspended flags of the
\* target record: local id, VC document (credentialStatus with statusListIndex
\* and statusListCredential included), signed JWT and verification method id
\* are the same before and after any sequence of updates.  No step changes
\* them in a record that stays stored, and the record an update commits is the
\* one it read with the flags of the request.
UpdateChangesOnlyFlags ==
  [][/\ \A c \in (DOMAIN db.credentials) \cap (DOMAIN db'.credentials) :
          /\ Unflagged(db'.credentials[c]) = Unflagged(db.credentials[c])
          /\ VerifiableCredential(db'.credentials[c]) = VerifiableCredential(db.credentials[c])
          /\ db'.credentials[c].jwt = db.credentials[c].jwt
          /\ db'.credentials[c].vm = db.credentials[c].vm
     /\ \A p \in Procs :
          UpdateCommits(p) =>
            LET id == op[p].reqs[1].id IN
            /\ db'.credentials[id].revoked = op[p].reqs[1].revoked
            /\ db'.credentials[id].suspended = op[p].reqs[1].suspended
            /\ db'.credentials[id].jwt
                 = CredentialJWT(db'.credentials[id].vm,
                                 VerifiableCredential(db'.credentials[id]))]_vars

\* A credential created with index 1 has been revoked: its record has the flag
\* and still the index, the reference and the token of its creation.
UpdateChangesOnlyFlagsWitness ==
  \E p \in Procs :
    /\ pc[p] = "done"
    /\ op[p].kind = "update"
    /\ result[p].err = ""
    /\ op[p].reqs[1].revoked
    /\ op[p].reqs[1].id \in Stored
    /\ db.credentials[op[p].reqs[1].id].revoked
    /\ db.credentials[op[p].reqs[1].id].index = 1
    /\ db.credentials[op[p].reqs[1].id].list
         = StatusListURI(db.statusLists[TripleOf(op[p].reqs[1].id)].id)
    /\ db.credentials[op[p].reqs[1].id].jwt
         = CredentialJWT(db.credentials[op[p].reqs[1].id].vm,
                         VerifiableCredential(db.credentials[op[p].reqs[1].id]))

\* C33: if DeleteCredential(X) runs concurrently with UpdateCredentialStatus(X)
\* and no create follows, then once both calls have returned GetCredential(X)
\* fails with not found: an update that loaded X before the delete never
\* writes the credential record back after the delete.  (Local ids are not used
\* twice, so a record that is missing when the update commits was deleted after
\* the update loaded it.)
UpdateNeverRestoresDeleted ==
  [][\A p \in Procs :
       (Commits(p) /\ op[p].kind = "update" /\ op[p].reqs[1].id \notin Stored)
         => GetCredential(db', op[p].reqs[1].id).err = "credential not found with id"]_vars

\* The key of the verification method is missing, is controlled by another DID
\* than the issuer, or is revoked
KeyUnusable(verificationMethodID, issuer) ==
  \/ verificationMethodID \notin DOMAIN keyStore
  \/ keyStore[verificationMethodID].controller # issuer
  \/ keyStore[verificationMethodID].revoked

\* p's single update asks for a change of the flag of the credential's purpose
FlagChange(p) ==
  /\ op[p].kind = "update"
  /\ op[p].reqs[1].id \in Stored
  /\ ~SamePair(p)
  /\ ~(op[p].reqs[1].revoked /\ op[p].reqs[1].suspended)
  /\ op[p].reqs[1].revoked => db.credentials[op[p].reqs[1].id].purpose = StatusRevocation
  /\ op[p].reqs[1].suspended => db.credentials[op[p].reqs[1].id].purpose = StatusSuspension

\* C34: UpdateCredentialStatus on a credential whose verification-method key is
\* missing, has a controller different from the issuer, or has revoked=true
\* fails when re-signing the status credential, and leaves both the
\* credential's flags and the status credential unchanged: a credential issued
\* with a key that was revoked later cannot be revoked or suspended.
UpdateWithUnusableKeyFails ==
  [][\A p \in Procs :
       ( /\ BodyRuns(p)
         /\ FlagChange(p)
         /\ KeyUnusable(db.credentials[op[p].reqs[1].id].vm,
                        db.credentials[op[p].reqs[1].id].issuer) )
         => /\ pc'[p] = "done"
            /\ result'[p] = [err |-> "could not sign status list credential", out |-> <<>>]
            /\ tx'[p] = EmptyTx
            /\ db' = db]_vars

\* The key of a stored, unrevoked credential was revoked after its issuance,
\* and the call to revoke the credential has failed on signing.
UpdateWithUnusableKeyFailsWitness ==
  \E p \in Procs :
    /\ pc[p] = "done"
    /\ op[p].kind = "update"
    /\ op[p].reqs[1].revoked
    /\ result[p].err = "could not sign status list credential"
    /\ op[p].reqs[1].id \in Stored
    /\ ~db.credentials[op[p].reqs[1].id].revoked
    /\ db.credentials[op[p].reqs[1].id].vm \in DOMAIN keyStore
    /\ keyStore[db.credentials[op[p].reqs[1].id].vm].revoked
    /\ keyStore[db.credentials[op[p].reqs[1].id].vm].controller
         = db.credentials[op[p].reqs[1].id].issuer
    /\ db.statusLists[TripleOf(op[p].reqs[1].id)].bits = {}

\* the credential records a step adds to the store
NewCredentials == (DOMAIN db'.credentials) \ (DOMAIN db.credentials)

\* C35: every credential a CreateCredential or BatchCreateCredentials call
\* stores is stored with revoked = false and suspended = false, and directly
\* after the creation of a credential with a status the bit at its
\* statusListIndex in the status credential of its triple is 0, whatever the
\* flags and bits of the other credentials of the triple are.
CreatedUnflaggedWithZeroBit ==
  [][\A p \in Procs :
       (Commits(p) /\ op[p].kind \in {"create", "batchCreate"})
         => \A c \in NewCredentials :
              /\ ~db'.credentials[c].revoked
              /\ ~db'.credentials[c].suspended
              /\ db'.credentials[c].purpose # NoPurpose
                   => /\ TripleIn(db', c) \in DOMAIN db'.statusLists
                      /\ db'.credentials[c].index
                           \notin db'.statusLists[TripleIn(db', c)].bits]_vars

\* A credential has just been created into a triple another credential of
\* which is revoked or suspended with its bit set: the new one has bit 0.
CreatedUnflaggedWithZeroBitWitness ==
  \E p \in Procs :
    /\ pc[p] = "done"
    /\ op[p].kind = "create"
    /\ result[p].err = ""
    /\ result[p].out[1].id \in StatusCreds
    /\ ~db.credentials[result[p].out[1].id].revoked
    /\ ~db.credentials[result[p].out[1].id].suspended
    /\ \E d \in Members(TripleOf(result[p].out[1].id)) \ {result[p].out[1].id} :
         /\ PurposeFlag(d)
         /\ db.statusLists[TripleOf(d)].bits = {db.credentials[d].index}

\* C37: CreateCredential fails with 'cannot set subject, data already contains
\* a different ID value' and stores nothing when data has an 'id' property
\* different from the requested subject; with no 'id' in data, or with an 'id'
\* equal to the subject, that error does not occur, and the credentialSubject
\* of every credential a creation stores has the requested subject as its id.
SubjectIdConflict(request) == request.dataId \notin {NoDataId, request.subject}
SubjectIdIsRequestedSubject ==
  [][\A p \in Procs :
       /\ (BodyRuns(p) /\ op[p].kind = "create")
            => IF SubjectIdConflict(CreateOf(p))
                 THEN /\ pc'[p] = "done"
                      /\ result'[p]
                           = [err |-> "cannot set subject, data already contains a different ID value",
                              out |-> <<>>]
                      /\ tx'[p] = EmptyTx
                      /\ db' = db
                 ELSE result'[p].err
                        # "cannot set subject, data already contains a different ID value"
       /\ (Commits(p) /\ op[p].kind = "create")
            => /\ ~SubjectIdConflict(CreateOf(p))
               /\ db'.credentials[result[p].out[1].id].subject = CreateOf(p).subject]_vars

\* A creation whose data carries another id has failed, with a credential of
\* the same subject in the store that the failure left alone.
SubjectIdIsRequestedSubjectWitness ==
  \E p \in Procs :
    /\ pc[p] = "done"
    /\ op[p].kind = "create"
    /\ CreateOf(p).dataId = SubjectY
    /\ CreateOf(p).subject = SubjectX
    /\ result[p].err = "cannot set subject, data already contains a different ID value"
    /\ \E c \in Stored : db.credentials[c].subject = SubjectX

\* A creation whose data carries the requested subject as its id has stored a
\* credential of that subject.
OwnIdCreatedWitness ==
  \E p \in Procs :
    /\ pc[p] = "done"
    /\ op[p].kind = "create"
    /\ CreateOf(p).dataId = CreateOf(p).subject
    /\ result[p].err = ""
    /\ result[p].out[1].id \in Stored
    /\ db.credentials[result[p].out[1].id].subject = CreateOf(p).subject

\* the errors with which a creation ends when signing fails: those of
\* signCredentialJWT, or the wrapped one when the first status credential of
\* the triple could not be signed
SigningErrors ==
  {"getting key for signing credential",
   "key controller does not match credential issuer",
   "cannot use revoked key",
   "could not create status list entry for credential"}

\* C38: signing, of the credential in CreateCredential and of the status
\* credential in UpdateCredentialStatus, succeeds only if the key of the
\* verification method exists, its controller is the credential's issuer and
\* it is not revoked: a creation whose key is missing, revoked or controlled by
\* another DID ends with an error and writes nothing, and every credential
\* and status credential put into a write set is signed with a key that the
\* key store holds, unrevoked, for the issuer of what is signed.
SignedOnlyWithIssuerKey ==
  [][\A p \in Procs :
       BodyRuns(p) =>
         /\ op[p].kind = "create"
              => /\ KeyUnusable(CreateOf(p).vm, CreateOf(p).issuer)
                      => /\ pc'[p] = "done"
                         /\ result'[p].err \in SigningErrors
                         /\ tx'[p] = EmptyTx
                         /\ db' = db
                 /\ pc'[p] = "commit"
                      => /\ ~KeyUnusable(CreateOf(p).vm, CreateOf(p).issuer)
                         /\ \A c \in DOMAIN tx'[p].credentials :
                              /\ tx'[p].credentials[c].jwt.kid = CreateOf(p).vm
                              /\ keyStore[tx'[p].credentials[c].jwt.kid].controller
                                   = tx'[p].credentials[c].issuer
         /\ \A k \in DOMAIN tx'[p].statusLists :
              /\ tx'[p].statusLists[k].jwt \in DOMAIN keyStore
              /\ keyStore[tx'[p].statusLists[k].jwt].controller = tx'[p].statusLists[k].issuer
              /\ ~keyStore[tx'[p].statusLists[k].jwt].revoked]_vars

\* A creation for issuer A with the key of issuer B has failed on the
\* controller check, while a credential signed with the issuer's own key is in
\* the store.
SignedOnlyWithIssuerKeyWitness ==
  \E p \in Procs :
    /\ pc[p] = "done"
    /\ op[p].kind = "create"
    /\ CreateOf(p).issuer = IssuerA
    /\ CreateOf(p).vm = KeyB
    /\ result[p].err = "key controller does not match credential issuer"
    /\ \E c \in Stored : db.credentials[c].jwt.kid = KeyA

\* C39: VerifyCredentialRequest.IsValid accepts a request if and only if it
\* provides exactly one of a data-integrity credential with a proof and a
\* credential JWT: every VerifyCredential call made so far was let through by
\* IsValid exactly if its request had one of the two and not the other, so
\* that a request with neither, with both, or with nothing but a credential
\* without proof ended with 'invalid verify credential request'.
IsValidAcceptsExactlyOne ==
  \A p \in Procs :
    (pc[p] = "done" /\ op[p].kind = "verify")
      => /\ (VerifyCredentialRequestIsValid(op[p].reqs[1]) = "")
              <=> ((op[p].reqs[1].credential = Proved) # op[p].reqs[1].jwt)
         /\ (result[p].err = "invalid verify credential request")
              <=> ~((op[p].reqs[1].credential = Proved) # op[p].reqs[1].jwt)

\* a stored credential with a credentialStatus for whose triple no status
\* credential is stored
Orphan(id) ==
  /\ id \in StatusCreds
  /\ TripleOf(id) \notin DOMAIN db.statusLists

\* p starts an UpdateCredentialStatus, or a BatchUpdateCredentialStatus whose
\* first component is, on such a credential
UpdateOfOrphan(p) ==
  /\ pc[p] = "idle"
  /\ pc'[p] # "idle"
  /\ op'[p].kind \in {"update", "batchUpdate"}
  /\ Orphan(op'[p].reqs[1].id)

OrphanUpdatePanics ==
  [][\A p \in Procs :
       UpdateOfOrphan(p)
         => /\ statusListCredentialWatchKey(db, op'[p].reqs[1].id)
                 = [err |-> "", key |-> NilWatchKey]
            /\ pc'[p] = "panic"
            /\ result'[p] = NoResult
            /\ watch'[p] = watch[p]
            /\ tx' = tx
            /\ db' = db]_vars

\* An update of a credential whose status credential is missing has panicked.
OrphanUpdatePanicsWitness ==
  \E p \in Procs :
    /\ pc[p] = "panic"
    /\ op[p].kind = "update"
    /\ Orphan(op[p].reqs[1].id)

====
